---- MODULE Spec2Model ----
(***************************************************************************)
(* Model of remake (raymondbutcher/remake): the per-goal orchestration     *)
(* loop (remake / GraceMode / MonitorMode), the process wrapper            *)
(* (CmdProcess.Start / IsRunning / Kill and its wait goroutine) and the    *)
(* progress/change latch of makecmd.Cmd.                                   *)
(*                                                                         *)
(* Every goal task is a goroutine running remake(); its position is pc[g]. *)
(* A Go select picks any ready case, so every handler of a select is one   *)
(* action guarded by "its channel can be received from".  Timer ticks,     *)
(* filesystem notifications and the result of each `make -q -p` query are  *)
(* inputs of the environment, drawn with \E.                               *)
(***************************************************************************)
EXTENDS Integers, Sequences, FiniteSets, TLC

\* ---- bounds of the model ------------------------------------------------
NumGoals == 2        \* goals given on the command line (1..NumGoals)
MaxRemaining == 1    \* largest pending count a make query reports
MaxClock == 3        \* instants time.Now() can return in the latch scenario
MaxCalls == 5        \* length of a call sequence in the latch scenario

GoalIds == 1..NumGoals
NoGoal == 0

VARIABLES
    goals,        \* the goals main() manages (flag.Args())
    buildMutex,   \* NoGoal when unlocked, else the goal task that locked it
    pc,           \* position of each goal task in remake()
    err,          \* err of remake(): "none", "spawn", "grace"
    cmd,          \* makecmd.Cmd of the current cycle: progressed, remaining, usedChanged
    proc,         \* the make process: "none", "alive", "exited", or "failed"
                  \* for a CmdProcess whose Start() returned an error
    waiter,       \* wait goroutine of CmdProcess.Start: "none","wait","done","send","end"
    running,      \* CmdProcess.running
    exitWait,     \* CmdProcess.exitWait counter
    exitErr,      \* err of the Finished() case: the status received is an error
    check,        \* number of items in the one-slot check channel of the mode
    forcedCheck,  \* TRUE while the 1s forced-check timer has not been received
    progress,     \* progressChecker of GraceMode: stalled (timer armed), remaining
    readyPending, \* a ready signal waits to be received from the ready channel
    killFrom,     \* caller of kill(): "none", "grace", "monitor"
    crashed,      \* the program died from a panic
    calls,        \* latch scenario: the calls made so far on the Build Task
    panicked,     \* latch scenario: "none" or the call that panicked
    db,           \* makedb.Database.Targets of the last make query
    goal,         \* Cmd.Target, the goal whose staleness is asked
    since,        \* Cmd.progressed, the reference time of HasChanged
    dbpc,         \* query scenario: "none", "loaded", "deps", "counted", "checked"
    deps,         \* result of GetDeps: normal, orderOnly, and the normal list
                  \* as it was when the normal queue had been drained
    pending,      \* result of getRemaining
    hasChanged,   \* result of HasChanged
    block,        \* the block of dump lines given to Target.Populate
    parsed,       \* what Target.Populate returned: err and the target t
    dump,         \* output of the make query read by readTargets
    reader,       \* goroutine of readTargets: what it does next
    closed,       \* channels of readTargets that were closed
    popret,       \* Database.Populate: "none", "select", "nil", "error", "panic"
    uqueue,       \* a uqueue.UniqueQueue under any sequence of calls
    uqlog,        \* the strings given to Push and those returned by Pop
    sw,           \* fswatch.SharedWatcher and its goroutine
    clients,      \* the fswatch.Client of each goal task
    files,        \* result of Cmd.GetFiles
    lookup,       \* result of a Database.GetTarget / GetDeps call
    walk          \* a GetDeps call in progress: its queues, lists and loop

vars == <<goals, buildMutex, pc, err, cmd, proc, waiter, running, exitWait,
          exitErr, check, forcedCheck, progress, readyPending, killFrom,
          crashed, calls, panicked, db, goal, since, dbpc, deps, pending,
          hasChanged, block, parsed, dump, reader, closed, popret, uqueue, uqlog,
          sw, clients, files, lookup, walk>>

\* ---- makecmd.Cmd --------------------------------------------------------
NewCmd == [progressed |-> 0, remaining |-> 0, usedChanged |-> FALSE]

\* HasChanged panics when progressed.IsZero()
HasChangedPanics(c) == c.progressed = 0

\* HasChanged that forgets to set the latch
HasChangedNoLatch(c) == c

\* HasChanged sets the usedChanged latch before it queries make
HasChanged(c) == [c EXCEPT !.usedChanged = TRUE]

\* UpdateProgress panics when usedChanged is set
UpdateProgressPanics(c) == c.usedChanged

\* UpdateProgress stores time.Now() and the count of getRemaining()
UpdateProgress(c, now, rem) == [c EXCEPT !.progressed = now, !.remaining = rem]

CheckProgress(c) == c.remaining

\* ---- progressChecker ----------------------------------------------------
newProgressChecker == [stalled |-> TRUE, remaining |-> 0]

\* extend() has a value receiver: it re-arms the timer of its own copy.
extend(p) == [p EXCEPT !.stalled = TRUE]

\* a check() with a pointer receiver: the caller's struct is written
progressChecker_checkPointer(p, c, rem) ==
    LET c2 == UpdateProgress(c, 1, rem)
        r == CheckProgress(c2)
        done == (r = 0)
        progressing == (r # p.remaining)
        p2 == [p EXCEPT !.remaining = r]
        p3 == IF progressing /\ ~done THEN extend(p2) ELSE p2
    IN [done |-> done, progressing |-> progressing, cmd |-> c2,
        copy |-> p3, caller |-> p3]

\* check() has a value receiver: it works on a copy p of the caller's
\* progressChecker.  `copy` is that copy when check() returns; the caller's
\* struct is not written.
progressChecker_check(p, c, rem) ==
    LET c2 == UpdateProgress(c, 1, rem)
        r == CheckProgress(c2)
        done == (r = 0)
        progressing == (r # p.remaining)
        p2 == [p EXCEPT !.remaining = r]
        p3 == IF progressing /\ ~done THEN extend(p2) ELSE p2
    IN [done |-> done, progressing |-> progressing, cmd |-> c2,
        copy |-> p3, caller |-> p]

\* ---- initial states -----------------------------------------------------
procVars == <<proc, waiter, running, exitWait, exitErr>>
latchVars == <<calls, panicked>>
dbVars == <<db, goal, since, dbpc, deps, pending, hasChanged>>
parseVars == <<block, parsed, dump, reader, closed, popret>>
queueVars == <<uqueue, uqlog>>
watchVars == <<sw, clients>>
restVars == <<queueVars, watchVars, files, lookup, walk>>
libVars == <<dbVars, parseVars, restVars>>

\* main(): one goroutine per goal, nothing started yet
Started(gs) ==
    /\ goals = gs
    /\ buildMutex = NoGoal
    /\ pc = [g \in GoalIds |-> IF g \in goals THEN "new" ELSE "off"]
    /\ err = [g \in GoalIds |-> "none"]
    /\ cmd = [g \in GoalIds |-> NewCmd]
    /\ proc = [g \in GoalIds |-> "none"]
    /\ waiter = [g \in GoalIds |-> "none"]
    /\ running = [g \in GoalIds |-> FALSE]
    /\ exitWait = [g \in GoalIds |-> 0]
    /\ exitErr = [g \in GoalIds |-> FALSE]
    /\ check = [g \in GoalIds |-> 0]
    /\ forcedCheck = [g \in GoalIds |-> FALSE]
    /\ progress = [g \in GoalIds |-> newProgressChecker]
    /\ readyPending = FALSE
    /\ killFrom = [g \in GoalIds |-> "none"]
    /\ crashed = FALSE
    /\ calls = <<>>
    /\ panicked = "none"

\* no make database has been queried
NoDatabase ==
    /\ db = [DefaultGoal |-> "", Targets |-> <<>>]
    /\ goal = ""
    /\ since = 0
    /\ dbpc = "none"
    /\ deps = [normal |-> <<>>, orderOnly |-> <<>>, drained |-> <<>>]
    /\ pending = 0
    /\ hasChanged = FALSE

\* no dump is being read
NoDump ==
    /\ block = <<>>
    /\ parsed = [err |-> "none", t |-> <<>>]
    /\ dump = [goals |-> <<>>, header |-> FALSE, blocks |-> <<>>]
    /\ reader = [pc |-> "none", i |-> 0]
    /\ closed = {}
    /\ popret = "none"

\* no GetDeps call is in progress
NoWalk ==
    [pc |-> "none", nq |-> [queue |-> <<>>, seen |-> {}],
     oq |-> [queue |-> <<>>, seen |-> {}], normal |-> <<>>,
     orderOnly |-> <<>>, drained |-> <<>>]

\* no queue, watcher or lookup is exercised
NoRest ==
    /\ uqueue = [queue |-> <<>>, seen |-> {}]
    /\ uqlog = [pushed |-> <<>>, popped |-> <<>>, panicked |-> FALSE]
    /\ sw = [pc |-> "none", notify |-> FALSE, i |-> 0, rounds |-> 0]
    /\ clients = <<>>
    /\ files = <<>>
    /\ lookup = [call |-> "none", panic |-> FALSE, t |-> <<>>]
    /\ walk = NoWalk

\* remake of a single goal, the only case in which ready signals are heard
Init == Started({1}) /\ NoDatabase /\ NoDump /\ NoRest

\* remake of any number of goals
GoalsInit ==
    \E n \in 1..NumGoals : Started(1..n) /\ NoDatabase /\ NoDump /\ NoRest

\* ---- remake(): the loop of one goal ------------------------------------
\* The loop of remake() starts an iteration with cmd = makecmd.NewCmd(target):
\* a Cmd without a process.  Nothing blocks between the end of an iteration
\* and that assignment, so the step that ends an iteration performs it, and
\* the wait goroutine of the abandoned CmdProcess, which nothing can reach
\* any more, leaves the model with it.
NextIteration(g) ==
    /\ cmd' = [cmd EXCEPT ![g] = NewCmd]
    /\ proc' = [proc EXCEPT ![g] = "none"]
    /\ waiter' = [waiter EXCEPT ![g] = "none"]
    /\ running' = [running EXCEPT ![g] = FALSE]
    /\ exitWait' = [exitWait EXCEPT ![g] = 0]
    /\ exitErr' = [exitErr EXCEPT ![g] = FALSE]
    /\ err' = [err EXCEPT ![g] = "none"]
    /\ pc' = [pc EXCEPT ![g] = "new"]

\* Lock that does not wait for the mutex to be free
LockNoWait(g) ==
    /\ ~crashed
    /\ pc[g] = "new"
    /\ buildMutex' = g
    /\ pc' = [pc EXCEPT ![g] = "start"]
    /\ UNCHANGED <<goals, err, cmd, procVars, check, forcedCheck, progress,
                   readyPending, killFrom, crashed, latchVars, libVars>>

\* buildMutex.Lock()
Lock(g) ==
    /\ ~crashed
    /\ pc[g] = "new"
    /\ buildMutex = NoGoal
    /\ buildMutex' = g
    /\ pc' = [pc EXCEPT ![g] = "start"]
    /\ UNCHANGED <<goals, err, cmd, procVars, check, forcedCheck, progress,
                   readyPending, killFrom, crashed, latchVars, libVars>>

\* a spawn whose failure path releases the lock itself, before the
\* buildMutex.Unlock() of the loop
StartUnlocksOnError(g) ==
    /\ ~crashed
    /\ pc[g] = "start"
    /\ \E ok \in BOOLEAN :
        IF ok
        THEN /\ proc' = [proc EXCEPT ![g] = "alive"]
             /\ waiter' = [waiter EXCEPT ![g] = "wait"]
             /\ running' = [running EXCEPT ![g] = TRUE]
             /\ exitWait' = [exitWait EXCEPT ![g] = 1]
             /\ exitErr' = [exitErr EXCEPT ![g] = FALSE]
             /\ progress' = [progress EXCEPT ![g] = newProgressChecker]
             /\ forcedCheck' = [forcedCheck EXCEPT ![g] = TRUE]
             /\ check' = [check EXCEPT ![g] = 0]
             /\ pc' = [pc EXCEPT ![g] = "grace"]
             /\ err' = [err EXCEPT ![g] = "none"]
             /\ buildMutex' = buildMutex
        ELSE /\ err' = [err EXCEPT ![g] = "spawn"]
             /\ pc' = [pc EXCEPT ![g] = "unlock"]
             /\ proc' = [proc EXCEPT ![g] = "failed"]
             /\ buildMutex' = NoGoal
             /\ UNCHANGED <<waiter, running, exitWait, exitErr, progress,
                            forcedCheck, check>>
    /\ UNCHANGED <<goals, cmd, readyPending, killFrom, crashed,
                   latchVars, libVars>>

\* err = cmd.Start(); on success GraceMode is entered and builds its
\* progress checker, forced-check timer and check channel.
Start(g) ==
    /\ ~crashed
    /\ pc[g] = "start"
    /\ \E ok \in BOOLEAN :
        IF ok
        THEN /\ proc' = [proc EXCEPT ![g] = "alive"]
             /\ waiter' = [waiter EXCEPT ![g] = "wait"]
             /\ running' = [running EXCEPT ![g] = TRUE]
             /\ exitWait' = [exitWait EXCEPT ![g] = 1]
             /\ exitErr' = [exitErr EXCEPT ![g] = FALSE]
             /\ progress' = [progress EXCEPT ![g] = newProgressChecker]
             /\ forcedCheck' = [forcedCheck EXCEPT ![g] = TRUE]
             /\ check' = [check EXCEPT ![g] = 0]
             /\ pc' = [pc EXCEPT ![g] = "grace"]
             /\ err' = [err EXCEPT ![g] = "none"]
        ELSE /\ err' = [err EXCEPT ![g] = "spawn"]
             /\ pc' = [pc EXCEPT ![g] = "unlock"]
             /\ proc' = [proc EXCEPT ![g] = "failed"]
             /\ UNCHANGED <<waiter, running, exitWait, exitErr, progress,
                            forcedCheck, check>>
    /\ UNCHANGED <<goals, buildMutex, cmd, readyPending, killFrom, crashed,
                   latchVars, libVars>>

\* an error path that goes to its sleep without buildMutex.Unlock()
UnlockOnSuccessOnly(g) ==
    /\ ~crashed
    /\ pc[g] = "unlock"
    /\ IF err[g] = "none"
       THEN /\ buildMutex' = NoGoal
            /\ pc' = [pc EXCEPT ![g] = "monitor"]
            /\ check' = [check EXCEPT ![g] = 0]
       ELSE /\ pc' = [pc EXCEPT ![g] = "sleep"]
            /\ UNCHANGED <<buildMutex, check>>
    /\ exitErr' = [exitErr EXCEPT ![g] = FALSE]
    /\ UNCHANGED <<goals, err, cmd, proc, waiter, running, exitWait,
                   forcedCheck, progress, readyPending, killFrom, crashed,
                   latchVars, libVars>>

\* buildMutex.Unlock(), then MonitorMode (err == nil) or the error sleep.
\* Unlocking an unlocked sync.Mutex is a fatal error.  The exit status that
\* GraceMode received and logged is gone once GraceMode has returned.
Unlock(g) ==
    /\ ~crashed
    /\ pc[g] = "unlock"
    /\ IF buildMutex = NoGoal
       THEN /\ crashed' = TRUE
            /\ UNCHANGED <<buildMutex, pc, check, exitErr>>
       ELSE /\ buildMutex' = NoGoal
            /\ crashed' = crashed
            /\ exitErr' = [exitErr EXCEPT ![g] = FALSE]
            /\ IF err[g] = "none"
               THEN /\ pc' = [pc EXCEPT ![g] = "monitor"]
                    /\ check' = [check EXCEPT ![g] = 0]
               ELSE /\ pc' = [pc EXCEPT ![g] = "sleep"]
                    /\ check' = check
    /\ UNCHANGED <<goals, err, cmd, proc, waiter, running, exitWait,
                   forcedCheck, progress, readyPending, killFrom, latchVars, libVars>>

\* an error sleep after which the same Cmd is started again
ErrorSleepSameCmd(g) ==
    /\ ~crashed
    /\ pc[g] = "sleep"
    /\ pc' = [pc EXCEPT ![g] = "new"]
    /\ err' = [err EXCEPT ![g] = "none"]
    /\ UNCHANGED <<goals, buildMutex, cmd, procVars, check, forcedCheck,
                   progress, readyPending, killFrom, crashed, latchVars,
                   libVars>>

\* time.Sleep(remakeErrorSleep), then the next iteration
ErrorSleep(g) ==
    /\ ~crashed
    /\ pc[g] = "sleep"
    /\ NextIteration(g)
    /\ UNCHANGED <<goals, buildMutex, check, forcedCheck, progress,
                   readyPending, killFrom, crashed, latchVars, libVars>>

\* ---- GraceMode ----------------------------------------------------------
\* check <- true on the one-slot channel the same goroutine reads: the send
\* completes when the slot is free and otherwise blocks the task.
ForwardCheck(g, blockedPc) ==
    IF check[g] = 0
    THEN /\ check' = [check EXCEPT ![g] = 1]
         /\ pc' = pc
    ELSE /\ check' = check
         /\ pc' = [pc EXCEPT ![g] = blockedPc]

\* GraceMode returns e to remake(); its locals (progress, forcedCheck, check)
\* end with the call.
GraceReturn(g, e) ==
    /\ err' = [err EXCEPT ![g] = e]
    /\ pc' = [pc EXCEPT ![g] = "unlock"]
    /\ progress' = [progress EXCEPT ![g] = newProgressChecker]
    /\ forcedCheck' = [forcedCheck EXCEPT ![g] = FALSE]
    /\ check' = [check EXCEPT ![g] = 0]

\* a panic ends the program
Panic ==
    /\ crashed' = TRUE
    /\ UNCHANGED <<cmd, err, pc, progress, forcedCheck, check, killFrom>>

\* cmd.UpdateProgress() followed by "return nil" in GraceMode
GraceUpdateReturn(g, rem) ==
    IF UpdateProgressPanics(cmd[g])
    THEN Panic
    ELSE /\ cmd' = [cmd EXCEPT ![g] = UpdateProgress(@, 1, rem)]
         /\ GraceReturn(g, "none")
         /\ UNCHANGED <<crashed, killFrom>>

\* case <-ready
GraceReady(g) ==
    /\ ~crashed
    /\ pc[g] = "grace"
    /\ readyPending
    /\ readyPending' = FALSE
    /\ \E rem \in 0..MaxRemaining : GraceUpdateReturn(g, rem)
    /\ UNCHANGED <<goals, buildMutex, procVars, latchVars, libVars>>

\* a Finished() case that leaves grace mode with an error when targets are
\* still pending
GraceFinishedRestarts(g) ==
    /\ ~crashed
    /\ pc[g] = "grace"
    /\ waiter[g] = "send"
    /\ waiter' = [waiter EXCEPT ![g] = "end"]
    /\ \E e \in BOOLEAN : exitErr' = [exitErr EXCEPT ![g] = e]
    /\ \E rem \in 0..MaxRemaining :
        /\ cmd' = [cmd EXCEPT ![g] = UpdateProgress(@, 1, rem)]
        /\ GraceReturn(g, IF rem = 0 THEN "none" ELSE "grace")
    /\ UNCHANGED <<goals, buildMutex, proc, running, exitWait, readyPending,
                   killFrom, crashed, latchVars, libVars>>

\* case err := <-cmd.Finished(): the receive lets the wait goroutine finish
\* its send and release runningMutex.  The exit status received is an error
\* or nil; it is logged and changes nothing else.
GraceFinished(g) ==
    /\ ~crashed
    /\ pc[g] = "grace"
    /\ waiter[g] = "send"
    /\ waiter' = [waiter EXCEPT ![g] = "end"]
    /\ \E e \in BOOLEAN : exitErr' = [exitErr EXCEPT ![g] = e]
    /\ \E rem \in 0..MaxRemaining : GraceUpdateReturn(g, rem)
    /\ UNCHANGED <<goals, buildMutex, proc, running, exitWait, readyPending,
                   latchVars, libVars>>

\* a forced-check case that receives the timer and requests no check
GraceForcedCheckDropped(g) ==
    /\ ~crashed
    /\ pc[g] = "grace"
    /\ forcedCheck[g]
    /\ forcedCheck' = [forcedCheck EXCEPT ![g] = FALSE]
    /\ UNCHANGED <<goals, buildMutex, pc, err, cmd, procVars, check, progress,
                   readyPending, killFrom, crashed, latchVars, libVars>>

\* case <-forcedCheck
GraceForcedCheck(g) ==
    /\ ~crashed
    /\ pc[g] = "grace"
    /\ forcedCheck[g]
    /\ forcedCheck' = [forcedCheck EXCEPT ![g] = FALSE]
    /\ ForwardCheck(g, "grace_send")
    /\ UNCHANGED <<goals, buildMutex, err, cmd, procVars, progress,
                   readyPending, killFrom, crashed, latchVars, libVars>>

\* case <-pollCheck
GracePollCheck(g) ==
    /\ ~crashed
    /\ pc[g] = "grace"
    /\ ForwardCheck(g, "grace_send")
    /\ UNCHANGED <<goals, buildMutex, err, cmd, procVars, forcedCheck,
                   progress, readyPending, killFrom, crashed, latchVars, libVars>>

\* case <-watchCheck
GraceWatchCheck(g) ==
    /\ ~crashed
    /\ pc[g] = "grace"
    /\ ForwardCheck(g, "grace_send")
    /\ UNCHANGED <<goals, buildMutex, err, cmd, procVars, forcedCheck,
                   progress, readyPending, killFrom, crashed, latchVars, libVars>>

\* case <-check: progress.check(); done leaves grace mode
GraceCheck(g) ==
    /\ ~crashed
    /\ pc[g] = "grace"
    /\ check[g] = 1
    /\ IF UpdateProgressPanics(cmd[g])
       THEN Panic
       ELSE \E rem \in 0..MaxRemaining :
            LET r == progressChecker_check(progress[g], cmd[g], rem) IN
            /\ cmd' = [cmd EXCEPT ![g] = r.cmd]
            /\ IF r.done
               THEN GraceReturn(g, "none")
               ELSE /\ progress' = [progress EXCEPT ![g] = r.caller]
                    /\ check' = [check EXCEPT ![g] = 0]
                    /\ UNCHANGED <<err, pc, forcedCheck>>
            /\ UNCHANGED <<crashed, killFrom>>
    /\ UNCHANGED <<goals, buildMutex, procVars, readyPending, latchVars, libVars>>

\* case <-progress.stalled: the tick of the timer held in progress.stalled is
\* received; a last progress.check(), then kill(cmd) and the error.
GraceStalled(g) ==
    /\ ~crashed
    /\ pc[g] = "grace"
    /\ progress[g].stalled
    /\ IF UpdateProgressPanics(cmd[g])
       THEN Panic
       ELSE \E rem \in 0..MaxRemaining :
            LET drained == [progress[g] EXCEPT !.stalled = FALSE]
                r == progressChecker_check(drained, cmd[g], rem) IN
            /\ cmd' = [cmd EXCEPT ![g] = r.cmd]
            /\ crashed' = crashed
            /\ IF r.done
               THEN /\ GraceReturn(g, "none")
                    /\ killFrom' = killFrom
               ELSE /\ progress' = [progress EXCEPT ![g] = r.caller]
                    /\ UNCHANGED <<err, forcedCheck, check>>
                    /\ IF r.progressing
                       THEN UNCHANGED <<pc, killFrom>>
                       ELSE /\ pc' = [pc EXCEPT ![g] = "kill"]
                            /\ killFrom' = [killFrom EXCEPT ![g] = "grace"]
    /\ UNCHANGED <<goals, buildMutex, procVars, readyPending, latchVars, libVars>>

\* ---- MonitorMode --------------------------------------------------------
\* a Finished() case that returns from MonitorMode
MonitorFinishedReturns(g) ==
    /\ ~crashed
    /\ pc[g] = "monitor"
    /\ waiter[g] = "send"
    /\ waiter' = [waiter EXCEPT ![g] = "end"]
    /\ \E e \in BOOLEAN : exitErr' = [exitErr EXCEPT ![g] = e]
    /\ pc' = [pc EXCEPT ![g] = "monitor_ret"]
    /\ check' = [check EXCEPT ![g] = 0]
    /\ UNCHANGED <<goals, buildMutex, err, cmd, proc, running, exitWait,
                   forcedCheck, progress, readyPending, killFrom, crashed,
                   latchVars, libVars>>

\* case err := <-cmd.Finished(): the status, an error or nil, is logged only
MonitorFinished(g) ==
    /\ ~crashed
    /\ pc[g] = "monitor"
    /\ waiter[g] = "send"
    /\ waiter' = [waiter EXCEPT ![g] = "end"]
    /\ \E e \in BOOLEAN : exitErr' = [exitErr EXCEPT ![g] = e]
    /\ UNCHANGED <<goals, buildMutex, pc, err, cmd, proc, running, exitWait,
                   check, forcedCheck, progress, readyPending, killFrom,
                   crashed, latchVars, libVars>>

\* case <-pollCheck
MonitorPollCheck(g) ==
    /\ ~crashed
    /\ pc[g] = "monitor"
    /\ ForwardCheck(g, "monitor_send")
    /\ UNCHANGED <<goals, buildMutex, err, cmd, procVars, forcedCheck,
                   progress, readyPending, killFrom, crashed, latchVars, libVars>>

\* case <-watchCheck
MonitorWatchCheck(g) ==
    /\ ~crashed
    /\ pc[g] = "monitor"
    /\ ForwardCheck(g, "monitor_send")
    /\ UNCHANGED <<goals, buildMutex, err, cmd, procVars, forcedCheck,
                   progress, readyPending, killFrom, crashed, latchVars, libVars>>

\* case <-check: cmd.HasChanged(); when true kill(cmd) and return
MonitorCheck(g) ==
    /\ ~crashed
    /\ pc[g] = "monitor"
    /\ check[g] = 1
    /\ IF HasChangedPanics(cmd[g])
       THEN Panic
       ELSE /\ cmd' = [cmd EXCEPT ![g] = HasChanged(@)]
            /\ check' = [check EXCEPT ![g] = 0]
            /\ \E changed \in BOOLEAN :
                IF changed
                THEN /\ pc' = [pc EXCEPT ![g] = "kill"]
                     /\ killFrom' = [killFrom EXCEPT ![g] = "monitor"]
                ELSE UNCHANGED <<pc, killFrom>>
            /\ UNCHANGED <<crashed, err, progress, forcedCheck>>
    /\ UNCHANGED <<goals, buildMutex, procVars, readyPending, latchVars, libVars>>

\* ---- kill(cmd) and CmdProcess.Kill --------------------------------------
\* kill(cmd) returns to its caller.  In MonitorMode the caller returns too
\* (its check channel ends with it); in GraceMode the caller returns the
\* "Grace period exceeded" error.
KillReturn(g) ==
    /\ killFrom' = [killFrom EXCEPT ![g] = "none"]
    /\ UNCHANGED <<cmd, procVars>>
    /\ IF killFrom[g] = "grace"
       THEN GraceReturn(g, "grace")
       ELSE /\ pc' = [pc EXCEPT ![g] = "monitor_ret"]
            /\ check' = [check EXCEPT ![g] = 0]
            /\ UNCHANGED <<err, progress, forcedCheck>>

\* a loop that starts its next iteration with the Cmd of the last one
LoopSameCmd(g) ==
    /\ ~crashed
    /\ pc[g] = "monitor_ret"
    /\ proc' = [proc EXCEPT ![g] = "none"]
    /\ waiter' = [waiter EXCEPT ![g] = "none"]
    /\ running' = [running EXCEPT ![g] = FALSE]
    /\ exitWait' = [exitWait EXCEPT ![g] = 0]
    /\ exitErr' = [exitErr EXCEPT ![g] = FALSE]
    /\ err' = [err EXCEPT ![g] = "none"]
    /\ pc' = [pc EXCEPT ![g] = "new"]
    /\ UNCHANGED <<goals, buildMutex, cmd, check, forcedCheck, progress,
                   readyPending, killFrom, crashed, latchVars, libVars>>

\* MonitorMode has returned: the for loop of remake() iterates
Loop(g) ==
    /\ ~crashed
    /\ pc[g] = "monitor_ret"
    /\ NextIteration(g)
    /\ UNCHANGED <<goals, buildMutex, check, forcedCheck, progress,
                   readyPending, killFrom, crashed, latchVars, libVars>>

\* a Kill that returns nil whatever IsRunning reports
KillIsRunningIgnored(g) ==
    /\ ~crashed
    /\ pc[g] = "kill"
    /\ waiter[g] # "send"
    /\ KillReturn(g)
    /\ UNCHANGED <<goals, buildMutex, readyPending, crashed, latchVars, libVars>>

\* if !c.IsRunning() { return nil }: IsRunning takes runningMutex, which the
\* wait goroutine holds while it is blocked in its send.
KillIsRunning(g) ==
    /\ ~crashed
    /\ pc[g] = "kill"
    /\ waiter[g] # "send"
    /\ IF running[g]
       THEN /\ pc' = [pc EXCEPT ![g] = "kill_run"]
            /\ UNCHANGED <<err, killFrom, cmd, procVars, check, progress,
                           forcedCheck>>
       ELSE KillReturn(g)
    /\ UNCHANGED <<goals, buildMutex, readyPending, crashed, latchVars, libVars>>

\* err := kill.Run(): `kill <pid>` fails when the pid was already reaped,
\* and may fail or succeed otherwise.  Success only delivers the signal: the
\* process exits afterwards (ProcessExit).  err == nil goes on to
\* exitWait.Wait(), an error goes back to kill(), which sleeps and retries.
KillRun(g) ==
    /\ ~crashed
    /\ pc[g] = "kill_run"
    /\ \E ok \in BOOLEAN :
        /\ ok => waiter[g] = "wait"
        /\ pc' = [pc EXCEPT ![g] = IF ok THEN "kill_wait" ELSE "kill_sleep"]
    /\ UNCHANGED <<goals, buildMutex, err, cmd, procVars,
                   check, forcedCheck, progress, readyPending, killFrom,
                   crashed, latchVars, libVars>>

\* Kill that returns without c.exitWait.Wait()
KillNoExitWait(g) ==
    /\ ~crashed
    /\ pc[g] = "kill_wait"
    /\ KillReturn(g)
    /\ UNCHANGED <<goals, buildMutex, readyPending, crashed, latchVars, libVars>>

\* c.exitWait.Wait(); return err (nil)
KillExitWait(g) ==
    /\ ~crashed
    /\ pc[g] = "kill_wait"
    /\ exitWait[g] = 0
    /\ KillReturn(g)
    /\ UNCHANGED <<goals, buildMutex, readyPending, crashed, latchVars, libVars>>

\* time.Sleep(1 * time.Second) in kill(), then the next attempt
KillRetrySleep(g) ==
    /\ ~crashed
    /\ pc[g] = "kill_sleep"
    /\ pc' = [pc EXCEPT ![g] = "kill"]
    /\ UNCHANGED <<goals, buildMutex, err, cmd, procVars, check, forcedCheck,
                   progress, readyPending, killFrom, crashed, latchVars, libVars>>

\* ---- the make process and the wait goroutine of CmdProcess.Start --------
\* the process exits, on its own or because of the signal it was sent
ProcessExit(g) ==
    /\ ~crashed
    /\ proc[g] = "alive"
    /\ proc' = [proc EXCEPT ![g] = "exited"]
    /\ UNCHANGED <<goals, buildMutex, pc, err, cmd, waiter, running, exitWait,
                   exitErr,
                   check, forcedCheck, progress, readyPending, killFrom,
                   crashed, latchVars, libVars>>

\* err := c.cmd.Wait(); c.exitWait.Done()
WaitReturn(g) ==
    /\ ~crashed
    /\ waiter[g] = "wait"
    /\ proc[g] = "exited"
    /\ waiter' = [waiter EXCEPT ![g] = "done"]
    /\ exitWait' = [exitWait EXCEPT ![g] = 0]
    /\ UNCHANGED <<goals, buildMutex, pc, err, cmd, proc, running, exitErr,
                   check, forcedCheck, progress, readyPending, killFrom,
                   crashed, latchVars, libVars>>

\* c.runningMutex.Lock(); c.running = false; c.exitChannel <- err: the send
\* on the unbuffered channel blocks, runningMutex held, until a receive.
WaiterSend(g) ==
    /\ ~crashed
    /\ waiter[g] = "done"
    /\ running' = [running EXCEPT ![g] = FALSE]
    /\ waiter' = [waiter EXCEPT ![g] = "send"]
    /\ UNCHANGED <<goals, buildMutex, pc, err, cmd, proc, exitWait, exitErr,
                   check, forcedCheck, progress, readyPending, killFrom,
                   crashed, latchVars, libVars>>

\* ---- makeReadyChannel ---------------------------------------------------
\* a forwarding goroutine that is started for any number of goals
ReadySignalAnyGoals ==
    /\ ~crashed
    /\ ~readyPending
    /\ readyPending' = TRUE
    /\ UNCHANGED <<goals, buildMutex, pc, err, cmd, procVars, check,
                   forcedCheck, progress, killFrom, crashed, latchVars, libVars>>

\* a SIGUSR1 is forwarded to the ready channel only when one goal is managed
ReadySignal ==
    /\ ~crashed
    /\ Cardinality(goals) = 1
    /\ ~readyPending
    /\ readyPending' = TRUE
    /\ UNCHANGED <<goals, buildMutex, pc, err, cmd, procVars, check,
                   forcedCheck, progress, killFrom, crashed, latchVars, libVars>>

\* a panic or a fatal runtime error ends the program: no action is enabled
\* once crashed is set
Next ==
    \/ \E g \in goals : Lock(g)
    \/ \E g \in goals : Start(g)
    \/ \E g \in goals : Unlock(g)
    \/ \E g \in goals : ErrorSleep(g)
    \/ \E g \in goals : Loop(g)
    \/ \E g \in goals : GraceReady(g)
    \/ \E g \in goals : GraceFinished(g)
    \/ \E g \in goals : GraceForcedCheck(g)
    \/ \E g \in goals : GracePollCheck(g)
    \/ \E g \in goals : GraceWatchCheck(g)
    \/ \E g \in goals : GraceCheck(g)
    \/ \E g \in goals : GraceStalled(g)
    \/ \E g \in goals : MonitorFinished(g)
    \/ \E g \in goals : MonitorPollCheck(g)
    \/ \E g \in goals : MonitorWatchCheck(g)
    \/ \E g \in goals : MonitorCheck(g)
    \/ \E g \in goals : KillIsRunning(g)
    \/ \E g \in goals : KillRun(g)
    \/ \E g \in goals : KillExitWait(g)
    \/ \E g \in goals : KillRetrySleep(g)
    \/ \E g \in goals : ProcessExit(g)
    \/ \E g \in goals : WaitReturn(g)
    \/ \E g \in goals : WaiterSend(g)
    \/ ReadySignal

Spec == Init /\ [][Next]_vars

GoalsSpec == GoalsInit /\ [][Next]_vars

\* ---- liveness: what the Go scheduler, the timers and the OS provide ------
\* Every goroutine that can take a step eventually takes one, a select with
\* a ready case eventually picks it, a sleep ends, and `kill` does not fail
\* for ever and the process it signalled exits.  Nothing obliges make to exit
\* on its own, a file to change, a tick to come or a ready signal to be sent.
PromptFairness ==
    \A g \in GoalIds :
        /\ WF_vars(Lock(g)) /\ WF_vars(Start(g)) /\ WF_vars(Unlock(g))
        /\ WF_vars(ErrorSleep(g)) /\ WF_vars(Loop(g))
        /\ WF_vars(GraceFinished(g)) /\ WF_vars(GraceCheck(g))
        /\ WF_vars(GraceForcedCheck(g))
        /\ WF_vars(MonitorFinished(g)) /\ WF_vars(MonitorCheck(g))
        /\ WF_vars(KillIsRunning(g)) /\ WF_vars(KillExitWait(g))
        /\ WF_vars(KillRetrySleep(g)) /\ WF_vars(KillRun(g))
        /\ SF_vars(KillRun(g) /\ pc'[g] = "kill_wait")
        /\ WF_vars(ProcessExit(g) /\ pc[g] = "kill_wait")
        /\ WF_vars(WaitReturn(g)) /\ WF_vars(WaiterSend(g))

\* the grace period, which is configurable, also ends
Fairness == PromptFairness /\ \A g \in GoalIds : WF_vars(GraceStalled(g))

FairSpec == Init /\ [][Next]_vars /\ Fairness

\* several goals: sync.Mutex hands the lock to a waiting goroutine before
\* long (starvation mode), so a task that finds the lock free again and
\* again gets it
GoalsFairSpec ==
    /\ GoalsInit /\ [][Next]_vars
    /\ Fairness
    /\ \A g \in GoalIds : SF_vars(Lock(g))

\* a grace period so long that its timer need not fire
ForcedSpec == Init /\ [][Next]_vars /\ PromptFairness

\* ---- a make query whose dump does not parse ------------------------------
\* g is at a handler that samples progress (UpdateProgress in GraceMode) or
\* checks for changes (HasChanged in MonitorMode), past the latch panics
QueryPoint(g) ==
    \/ /\ pc[g] = "grace"
       /\ ~UpdateProgressPanics(cmd[g])
       /\ \/ readyPending
          \/ waiter[g] = "send"
          \/ check[g] = 1
          \/ progress[g].stalled
    \/ /\ pc[g] = "monitor"
       /\ check[g] = 1
       /\ ~HasChangedPanics(cmd[g])

\* getDatabase(): db.Populate(r) returns an error and getDatabase panics
\* with it; nothing recovers the panic.  UpdateProgress has stored
\* time.Now() and HasChanged has set its latch before the query.
QueryParseError(g) ==
    /\ ~crashed
    /\ QueryPoint(g)
    /\ popret' = "error"
    /\ crashed' = TRUE
    /\ cmd' = [cmd EXCEPT ![g] =
                  IF pc[g] = "grace" THEN [@ EXCEPT !.progressed = 1]
                  ELSE HasChanged(@)]
    /\ UNCHANGED <<goals, buildMutex, pc, err, procVars, check, forcedCheck,
                   progress, readyPending, killFrom, latchVars, dbVars,
                   block, parsed, dump, reader, closed, restVars>>

QueryNext ==
    \/ Next
    \/ \E g \in goals : QueryParseError(g)

QuerySpec == GoalsInit /\ [][QueryNext]_vars

\* ---- the latch of one Build Task under any sequence of calls ------------
\* One makecmd.Cmd, cmd[1], receives UpdateProgress() and HasChanged() calls
\* in any order; a panic is not recovered anywhere, so it ends the sequence.
LatchInit == Started({}) /\ NoDatabase /\ NoDump /\ NoRest

orchVars == <<goals, buildMutex, pc, err, procVars, check, forcedCheck,
              progress, readyPending, killFrom, crashed>>

CallUpdateProgress ==
    /\ panicked = "none"
    /\ Len(calls) < MaxCalls
    /\ calls' = Append(calls, "UpdateProgress")
    /\ IF UpdateProgressPanics(cmd[1])
       THEN /\ panicked' = "UpdateProgress"
            /\ cmd' = cmd
       ELSE /\ panicked' = panicked
            /\ \E now \in 1..MaxClock, rem \in 0..MaxRemaining :
                cmd' = [cmd EXCEPT ![1] = UpdateProgress(@, now, rem)]
    /\ UNCHANGED <<orchVars, libVars>>

CallHasChanged ==
    /\ panicked = "none"
    /\ Len(calls) < MaxCalls
    /\ calls' = Append(calls, "HasChanged")
    /\ IF HasChangedPanics(cmd[1])
       THEN /\ panicked' = "HasChanged"
            /\ cmd' = cmd
       ELSE /\ panicked' = panicked
            /\ cmd' = [cmd EXCEPT ![1] = HasChanged(@)]
    /\ UNCHANGED <<orchVars, libVars>>

LatchNext == CallUpdateProgress \/ CallHasChanged

LatchSpec == LatchInit /\ [][LatchNext]_vars

\* ---- uqueue.UniqueQueue -------------------------------------------------
NewUniqueQueue == [queue |-> <<>>, seen |-> {}]

\* a Push that only refuses strings that are in the queue now
PushForgetful(uq, s) ==
    IF \E i \in DOMAIN uq.queue : uq.queue[i] = s
    THEN uq
    ELSE [queue |-> Append(uq.queue, s), seen |-> uq.seen \cup {s}]

\* Push adds s to the end of the queue unless it was added before
Push(uq, s) ==
    IF s \in uq.seen
    THEN uq
    ELSE [queue |-> Append(uq.queue, s), seen |-> uq.seen \cup {s}]

\* Pop removes the first string: s is what it returns, uq the queue after
Pop(uq) == [s |-> Head(uq.queue), uq |-> [uq EXCEPT !.queue = Tail(@)]]

UniqueQueueLen(uq) == Len(uq.queue)

\* for _, name := range names { uq.Push(name) }
RECURSIVE PushEach(_, _)
PushEach(uq, names) ==
    IF names = <<>> THEN uq
    ELSE PushEach(Push(uq, Head(names)), Tail(names))

\* ---- a UniqueQueue under every short sequence of Push and Pop ------------
MaxOps == 5

QueueStrings == {"a", "b", "c"}

QueueInit ==
    /\ Started({})
    /\ NoDatabase
    /\ NoDump
    /\ NoRest

QueueOps == Len(uqlog.pushed) + Len(uqlog.popped)

\* uq.Push(s)
CallPush ==
    /\ ~uqlog.panicked
    /\ QueueOps < MaxOps
    /\ \E s \in QueueStrings :
        /\ uqueue' = Push(uqueue, s)
        /\ uqlog' = [uqlog EXCEPT !.pushed = Append(@, s)]
    /\ UNCHANGED <<orchVars, cmd, latchVars, dbVars, parseVars, watchVars,
                   files, lookup, walk>>

\* uq.Pop(): uq.queue[0] of an empty queue is an index out of range, a
\* runtime panic that leaves the queue as it was
CallPop ==
    /\ ~uqlog.panicked
    /\ QueueOps < MaxOps
    /\ IF UniqueQueueLen(uqueue) = 0
       THEN /\ uqlog' = [uqlog EXCEPT !.panicked = TRUE]
            /\ uqueue' = uqueue
       ELSE /\ uqueue' = Pop(uqueue).uq
            /\ uqlog' = [uqlog EXCEPT !.popped = Append(@, Pop(uqueue).s)]
    /\ UNCHANGED <<orchVars, cmd, latchVars, dbVars, parseVars, watchVars,
                   files, lookup, walk>>

QueueNext == CallPush \/ CallPop

QueueSpec == QueueInit /\ [][QueueNext]_vars

\* ---- fswatch: the shared watcher and its clients ------------------------
NumClients == 2      \* clients of the shared watcher (one per goal task)
MaxRounds == 3       \* notification rounds of a run

ClientIds == 1..NumClients

\* NewClient: Events unbuffered, notified with one slot (0 or 1 items), the
\* goroutine waiting for a notification.  delivered counts the events its
\* reader received from Events; prompt says that every round so far began
\* after the event of the round before had been received.
NewClient ==
    [changed |-> FALSE, notified |-> 0, pc |-> "recv", delivered |-> 0,
     prompt |-> TRUE]

\* NewSharedWatcher, Start and the NewClient calls: notify is a channel that
\* never fires until a filesystem event arms the debounce timer
WatchInit ==
    /\ Started({})
    /\ NoDatabase
    /\ NoDump
    /\ uqueue = [queue |-> <<>>, seen |-> {}]
    /\ uqlog = [pushed |-> <<>>, popped |-> <<>>, panicked |-> FALSE]
    /\ files = <<>>
    /\ lookup = [call |-> "none", panic |-> FALSE, t |-> <<>>]
    /\ walk = NoWalk
    /\ sw = [pc |-> "select", notify |-> FALSE, i |-> 0, rounds |-> 0]
    /\ clients = [c \in ClientIds |-> NewClient]

watchIdle == <<orchVars, cmd, latchVars, dbVars, parseVars, queueVars, files,
               lookup, walk>>

\* what the event handler of Start does not pass on: names that begin with
\* a dot, and chmod events
FsEventKinds == {"dot", "create", "remove", "chmod", "write"}

\* case event := <-sw.watcher.Events: debounceNotify replaces the timer
FsEvent ==
    /\ sw.pc = "select"
    /\ \E kind \in FsEventKinds :
        sw' = [sw EXCEPT !.notify = IF kind \in {"dot", "chmod"} THEN @
                                    ELSE TRUE]
    /\ UNCHANGED <<watchIdle, clients>>

\* case <-sw.notify: the debounce timer fires and sw.mutex is taken
NotifyFire ==
    /\ sw.pc = "select"
    /\ sw.notify
    /\ sw.rounds < MaxRounds
    /\ sw' = [pc |-> "notify", notify |-> FALSE, i |-> 1,
              rounds |-> sw.rounds + 1]
    /\ clients' = [c \in ClientIds |->
                      [clients[c] EXCEPT
                          !.prompt = @ /\ clients[c].delivered = sw.rounds]]
    /\ UNCHANGED watchIdle

\* a notify that sends without marking the client changed
ClientNotifyUnmarked(cl) ==
    IF ~cl.changed THEN [cl EXCEPT !.notified = 1] ELSE cl

\* Client.notify(): under c.mutex, a client that is not marked changed is
\* marked and gets an item in notified
ClientNotify(cl) ==
    IF ~cl.changed THEN [cl EXCEPT !.changed = TRUE, !.notified = 1]
    ELSE cl

\* for _, client := range sw.clients { client.notify() }, one client at a
\* time; the send on notified blocks while its slot is full; after the last
\* client sw.mutex is released
NotifyClient ==
    /\ sw.pc = "notify"
    /\ clients[sw.i].changed \/ clients[sw.i].notified = 0
    /\ clients' = [clients EXCEPT ![sw.i] = ClientNotify(@)]
    /\ sw' = IF sw.i = NumClients THEN [sw EXCEPT !.pc = "select", !.i = 0]
             ELSE [sw EXCEPT !.i = @ + 1]
    /\ UNCHANGED watchIdle

\* goroutine of NewClient: <-c.notified
ClientRecv(c) ==
    /\ clients[c].pc = "recv"
    /\ clients[c].notified = 1
    /\ clients' = [clients EXCEPT ![c].notified = 0, ![c].pc = "clear"]
    /\ UNCHANGED <<watchIdle, sw>>

\* a goroutine that leaves the client marked changed
ClientClearKeepsChanged(c) ==
    /\ clients[c].pc = "clear"
    /\ clients' = [clients EXCEPT ![c].pc = "send"]
    /\ UNCHANGED <<watchIdle, sw>>

\* goroutine of NewClient: c.changed = false under c.mutex
ClientClear(c) ==
    /\ clients[c].pc = "clear"
    /\ clients' = [clients EXCEPT ![c].changed = FALSE, ![c].pc = "send"]
    /\ UNCHANGED <<watchIdle, sw>>

\* goroutine of NewClient: c.Events <- true, completed by the receive of
\* the goal task that reads Events
ClientDeliver(c) ==
    /\ clients[c].pc = "send"
    /\ clients' = [clients EXCEPT ![c].pc = "recv",
                                  ![c].delivered = @ + 1]
    /\ UNCHANGED <<watchIdle, sw>>

\* Close(): case <-sw.closed ends the goroutine of Start
WatcherClose ==
    /\ sw.pc = "select"
    /\ sw' = [sw EXCEPT !.pc = "closed"]
    /\ UNCHANGED <<watchIdle, clients>>

WatchNext ==
    \/ FsEvent
    \/ NotifyFire
    \/ NotifyClient
    \/ \E c \in ClientIds : ClientRecv(c)
    \/ \E c \in ClientIds : ClientClear(c)
    \/ \E c \in ClientIds : ClientDeliver(c)
    \/ WatcherClose

WatchSpec == WatchInit /\ [][WatchNext]_vars

\* ---- makedb.Database ----------------------------------------------------
\* GetTarget: the record of name, of the default goal when name is empty
GetTarget(database, name) ==
    IF name = "" THEN database.Targets[database.DefaultGoal]
    ELSE database.Targets[name]

\* a first loop that also follows order-only prerequisites on the normal queue
NormalStepMixed(database, st) ==
    LET p == Pop(st.nq)
        dep == GetTarget(database, p.s)
    IN [st EXCEPT
          !.normal = Append(@, p.s),
          !.nq = PushEach(PushEach(p.uq, dep.NormalPrerequisites),
                          dep.OrderOnlyPrerequisites)]

\* one iteration of `for nq.Len() != 0`
NormalStep(database, st) ==
    LET p == Pop(st.nq)
        dep == GetTarget(database, p.s)
    IN [st EXCEPT
          !.normal = Append(@, p.s),
          !.nq = PushEach(p.uq, dep.NormalPrerequisites),
          !.oq = PushEach(@, dep.OrderOnlyPrerequisites)]

RECURSIVE DrainNormal(_, _)
DrainNormal(database, st) ==
    IF UniqueQueueLen(st.nq) = 0 THEN st
    ELSE DrainNormal(database, NormalStep(database, st))

\* one iteration of `for oq.Len() != 0`: the name popped from the order-only
\* queue is appended to normal, as the code does; orderOnly is never written
OrderOnlyStep(database, st) ==
    LET p == Pop(st.oq)
        dep == GetTarget(database, p.s)
    IN [st EXCEPT
          !.normal = Append(@, p.s),
          !.oq = PushEach(PushEach(p.uq, dep.NormalPrerequisites),
                          dep.OrderOnlyPrerequisites)]

RECURSIVE DrainOrderOnly(_, _)
DrainOrderOnly(database, st) ==
    IF UniqueQueueLen(st.oq) = 0 THEN st
    ELSE DrainOrderOnly(database, OrderOnlyStep(database, st))

\* GetDeps(targetName): drained is `normal` between the two loops
GetDeps(database, targetName) ==
    LET target == database.Targets[targetName]
        st0 == [nq |-> PushEach(NewUniqueQueue, target.NormalPrerequisites),
                oq |-> PushEach(NewUniqueQueue, target.OrderOnlyPrerequisites),
                normal |-> <<>>,
                orderOnly |-> <<>>]
        st1 == DrainNormal(database, st0)
        st2 == DrainOrderOnly(database, st1)
    IN [normal |-> st2.normal, orderOnly |-> st2.orderOnly,
        drained |-> st1.normal]

\* ---- databases a make query can report ----------------------------------
\* target names of the makefile, in the order prerequisites are listed
NameOrder == <<"A", "B", "C", "D">>
Names == {NameOrder[i] : i \in 1..Len(NameOrder)}

MaxEdges == 4    \* prerequisite edges (normal or order-only) in the makefile

\* a prerequisite edge: <<target, prerequisite, kind>>
Edges == Names \X Names \X {"normal", "orderOnly"}

\* the subsets of E with at most k elements
RECURSIVE SetsUpTo(_, _)
SetsUpTo(E, k) ==
    IF k = 0 THEN {{}}
    ELSE LET prev == SetsUpTo(E, k - 1)
         IN prev \cup {es \cup {e} : es \in prev, e \in E}

\* the names of S as a prerequisite list, in makefile order or reversed
Listed(S, descending) ==
    LET asc == SelectSeq(NameOrder, LAMBDA n : n \in S)
    IN IF descending
       THEN [i \in 1..Len(asc) |-> asc[Len(asc) + 1 - i]]
       ELSE asc

Prerequisites(n, es, kind, descending) ==
    Listed({e[2] : e \in {x \in es : x[1] = n /\ x[3] = kind}}, descending)

\* the record Target.Populate builds for an existing, up-to-date file
Target(n, es, descending) ==
    [Name |-> n,
     NormalPrerequisites |-> Prerequisites(n, es, "normal", descending),
     OrderOnlyPrerequisites |-> Prerequisites(n, es, "orderOnly", descending),
     NotTarget |-> FALSE, Phony |-> FALSE, NeedsUpdate |-> FALSE,
     DoesNotExist |-> FALSE, LastModified |-> 1]

\* ---- GetDeps on every makefile of up to MaxEdges edges -------------------
DepsInit ==
    /\ Started({})
    /\ NoDump
    /\ NoRest
    /\ \E es \in SetsUpTo(Edges, MaxEdges), descending \in BOOLEAN :
        db = [DefaultGoal |-> "A",
              Targets |-> [n \in Names |-> Target(n, es, descending)]]
    /\ goal = "A"
    /\ since = 0
    /\ dbpc = "loaded"
    /\ deps = [normal |-> <<>>, orderOnly |-> <<>>, drained |-> <<>>]
    /\ pending = 0
    /\ hasChanged = FALSE

\* nDeps, oDeps := db.GetDeps(t.Name)
CallGetDeps ==
    /\ dbpc = "loaded"
    /\ deps' = GetDeps(db, GetTarget(db, goal).Name)
    /\ dbpc' = "deps"
    /\ UNCHANGED <<orchVars, cmd, latchVars, parseVars, restVars, db, goal, since,
                   pending, hasChanged>>

DepsSpec == DepsInit /\ [][CallGetDeps]_vars

\* ---- GetDeps, one loop iteration at a time -------------------------------
MaxWalkEdges == 4    \* prerequisite edges of the makefile that is walked

\* the targets of the makefile: every prerequisite name has a record
WalkNameSets == {{"A", "B"}, {"A", "B", "C"}}

\* every makefile of up to MaxWalkEdges edges over the names, cycles and
\* targets that list themselves included
WalkInit ==
    /\ Started({})
    /\ NoDump
    /\ NoRest
    /\ \E ns \in WalkNameSets :
       \E es \in SetsUpTo(ns \X ns \X {"normal", "orderOnly"}, MaxWalkEdges) :
       \E descending \in BOOLEAN :
        db = [DefaultGoal |-> "A",
              Targets |-> [n \in ns |-> Target(n, es, descending)]]
    /\ goal = "A"
    /\ since = 0
    /\ dbpc = "loaded"
    /\ deps = [normal |-> <<>>, orderOnly |-> <<>>, drained |-> <<>>]
    /\ pending = 0
    /\ hasChanged = FALSE

walkIdle == <<orchVars, cmd, latchVars, parseVars, queueVars, watchVars,
              files, lookup, db, goal, since, pending, hasChanged>>

\* GetDeps(targetName) up to its first loop: the target is found and its
\* prerequisites are pushed on the two queues
WalkSeed ==
    /\ dbpc = "loaded"
    /\ goal \in DOMAIN db.Targets
    /\ LET target == db.Targets[goal] IN
       walk' = [pc |-> "normal",
                nq |-> PushEach(NewUniqueQueue, target.NormalPrerequisites),
                oq |-> PushEach(NewUniqueQueue, target.OrderOnlyPrerequisites),
                normal |-> <<>>, orderOnly |-> <<>>, drained |-> <<>>]
    /\ dbpc' = "walking"
    /\ UNCHANGED <<walkIdle, deps>>

\* for nq.Len() != 0 { ... }: the test of the loop, then one iteration or
\* the way on to the second loop
WalkNormal ==
    /\ walk.pc = "normal"
    /\ walk' = IF UniqueQueueLen(walk.nq) # 0
               THEN NormalStep(db, walk)
               ELSE [walk EXCEPT !.pc = "orderOnly", !.drained = walk.normal]
    /\ UNCHANGED <<walkIdle, dbpc, deps>>

\* for oq.Len() != 0 { ... }: the test of the loop, then one iteration or
\* the return
WalkOrderOnly ==
    /\ walk.pc = "orderOnly"
    /\ IF UniqueQueueLen(walk.oq) # 0
       THEN /\ walk' = OrderOnlyStep(db, walk)
            /\ UNCHANGED <<dbpc, deps>>
       ELSE /\ walk' = [walk EXCEPT !.pc = "return"]
            /\ deps' = [normal |-> walk.normal, orderOnly |-> walk.orderOnly,
                        drained |-> walk.drained]
            /\ dbpc' = "deps"
    /\ UNCHANGED walkIdle

WalkNext == WalkSeed \/ WalkNormal \/ WalkOrderOnly

\* the goroutine that called GetDeps keeps running
WalkSpec == WalkInit /\ [][WalkNext]_vars /\ WF_vars(WalkNext)

\* ---- Cmd.HasChanged and Cmd.getRemaining on a database ------------------
\* getRemaining after getDatabase(): the goal itself when it is a real file,
\* then every entry of nDeps that is missing or needs an update, then every
\* entry of oDeps that is missing
getRemainingCountsPhony(database, target) ==
    LET t == GetTarget(database, target)
        d == GetDeps(database, t.Name)
        stale(n) == GetTarget(database, n).DoesNotExist
                        \/ GetTarget(database, n).NeedsUpdate
    IN (IF t.DoesNotExist \/ t.NeedsUpdate THEN 1 ELSE 0)
       + Cardinality({i \in DOMAIN d.normal : stale(d.normal[i])})
       + Cardinality({i \in DOMAIN d.orderOnly :
                        GetTarget(database, d.orderOnly[i]).DoesNotExist})

getRemaining(database, target) ==
    LET t == GetTarget(database, target)
        d == GetDeps(database, t.Name)
        stale(n) == GetTarget(database, n).DoesNotExist
                        \/ GetTarget(database, n).NeedsUpdate
    IN (IF ~t.Phony /\ (t.DoesNotExist \/ t.NeedsUpdate) THEN 1 ELSE 0)
       + Cardinality({i \in DOMAIN d.normal : stale(d.normal[i])})
       + Cardinality({i \in DOMAIN d.orderOnly :
                        GetTarget(database, d.orderOnly[i]).DoesNotExist})

\* HasChanged that never compares file times
HasChangedQueryNoTimes(database, target, progressed) ==
    LET t == GetTarget(database, target)
        d == GetDeps(database, t.Name)
    IN IF ~t.Phony /\ (t.DoesNotExist \/ t.NeedsUpdate) THEN TRUE
       ELSE \/ \E i \in DOMAIN d.normal :
                LET dep == GetTarget(database, d.normal[i])
                IN dep.DoesNotExist \/ dep.NeedsUpdate
            \/ \E i \in DOMAIN d.orderOnly :
                GetTarget(database, d.orderOnly[i]).DoesNotExist

\* HasChanged that compares file times for every goal
HasChangedQueryAlwaysTimes(database, target, progressed) ==
    LET t == GetTarget(database, target)
        d == GetDeps(database, t.Name)
    IN IF ~t.Phony /\ (t.DoesNotExist \/ t.NeedsUpdate) THEN TRUE
       ELSE \/ \E i \in DOMAIN d.normal :
                LET dep == GetTarget(database, d.normal[i])
                IN \/ dep.DoesNotExist \/ dep.NeedsUpdate
                   \/ dep.LastModified > progressed
            \/ \E i \in DOMAIN d.orderOnly :
                GetTarget(database, d.orderOnly[i]).DoesNotExist

\* HasChanged after the latch and getDatabase(): checkTimes for a phony goal;
\* a real-file goal answers from its own flags first; then the first entry of
\* nDeps that is missing, needs an update or (checkTimes) was modified after
\* progressed, then the first entry of oDeps that is missing
HasChangedQuery(database, target, progressed) ==
    LET t == GetTarget(database, target)
        checkTimes == t.Phony
        d == GetDeps(database, t.Name)
    IN IF ~t.Phony /\ (t.DoesNotExist \/ t.NeedsUpdate) THEN TRUE
       ELSE \/ \E i \in DOMAIN d.normal :
                LET dep == GetTarget(database, d.normal[i])
                IN \/ dep.DoesNotExist \/ dep.NeedsUpdate
                   \/ checkTimes /\ dep.LastModified > progressed
            \/ \E i \in DOMAIN d.orderOnly :
                GetTarget(database, d.orderOnly[i]).DoesNotExist

\* ---- staleness of a goal on every small database ------------------------
MaxStaleEdges == 2   \* prerequisite edges of a database in the staleness runs
MaxMarks == 2        \* attributes of targets that differ from "file is fine"

StaleNames == {"A", "B", "C"}
StaleEdges == StaleNames \X StaleNames \X {"normal", "orderOnly"}

\* instants a file time or the reference time can be
Times == 1..MaxClock

\* what a block of the dump can say about a target: a flag line, or a
\* "Last modified" line with a time later than the default one
Marks ==
    (StaleNames \X {"Phony", "NeedsUpdate", "DoesNotExist"} \X {0})
        \cup (StaleNames \X {"LastModified"} \X (Times \ {1}))

Marked(t, ms) ==
    LET has(attr) == \E m \in ms : m[1] = t.Name /\ m[2] = attr
        times == {m[3] : m \in {x \in ms : x[1] = t.Name
                                          /\ x[2] = "LastModified"}}
    IN [t EXCEPT
          !.Phony = has("Phony"),
          !.NeedsUpdate = has("NeedsUpdate"),
          !.DoesNotExist = has("DoesNotExist"),
          !.LastModified =
              IF times = {} THEN @
              ELSE CHOOSE v \in times : \A w \in times : w <= v]

StaleInit ==
    /\ Started({})
    /\ NoDump
    /\ NoRest
    /\ \E es \in SetsUpTo(StaleEdges, MaxStaleEdges),
          ms \in SetsUpTo(Marks, MaxMarks) :
        db = [DefaultGoal |-> "A",
              Targets |-> [n \in StaleNames |->
                              Marked(Target(n, es, FALSE), ms)]]
    /\ goal = "A"
    /\ since = MaxClock - 1
    /\ dbpc = "loaded"
    /\ deps = [normal |-> <<>>, orderOnly |-> <<>>, drained |-> <<>>]
    /\ pending = 0
    /\ hasChanged = FALSE

\* mc.remaining = mc.getRemaining()
CallGetRemaining ==
    /\ dbpc = "loaded"
    /\ pending' = getRemaining(db, goal)
    /\ deps' = GetDeps(db, GetTarget(db, goal).Name)
    /\ dbpc' = "counted"
    /\ UNCHANGED <<orchVars, cmd, latchVars, parseVars, restVars, db, goal, since,
                   hasChanged>>

\* cmd.HasChanged() on the same database
CallHasChangedQuery ==
    /\ dbpc = "counted"
    /\ hasChanged' = HasChangedQuery(db, goal, since)
    /\ dbpc' = "checked"
    /\ UNCHANGED <<orchVars, cmd, latchVars, parseVars, restVars, db, goal, since,
                   deps, pending>>

StaleNext == CallGetRemaining \/ CallHasChangedQuery

StaleSpec == StaleInit /\ [][StaleNext]_vars

\* ---- Cmd.GetFiles ---------------------------------------------------------
\* a GetFiles whose add() keeps phony targets
GetFilesKeepsPhony(database, target) ==
    LET t == GetTarget(database, target)
        d == GetDeps(database, t.Name)
    IN <<t.Name>> \o d.normal \o d.orderOnly

\* add(t) for the target of every name of names, in order
RECURSIVE AddEach(_, _, _)
AddEach(database, got, names) ==
    IF names = <<>> THEN got
    ELSE LET t == GetTarget(database, Head(names))
         IN  AddEach(database,
                     IF ~t.Phony THEN Append(got, t.Name) ELSE got,
                     Tail(names))

\* GetFiles on the database mc.db: the goal, then nDeps, then oDeps
GetFiles(database, target) ==
    LET t == GetTarget(database, target)
        d == GetDeps(database, t.Name)
    IN AddEach(database,
               AddEach(database, AddEach(database, <<>>, <<t.Name>>),
                       d.normal),
               d.orderOnly)

\* databases of a query: StaleNames with edges and phony marks
PhonyMarks == StaleNames \X {"Phony"} \X {0}

Snapshots ==
    {[DefaultGoal |-> "A",
      Targets |-> [n \in StaleNames |-> Marked(Target(n, es, FALSE), ms)]] :
        es \in SetsUpTo(StaleEdges, MaxStaleEdges),
        ms \in SetsUpTo(PhonyMarks, MaxMarks)}

\* a Cmd for the default goal or a named one, with the snapshot of its last
\* query (dbpc = "loaded") or none yet (mc.db == nil, dbpc = "none")
FilesInit ==
    /\ Started({})
    /\ NoDump
    /\ NoRest
    /\ goal \in {""} \cup StaleNames
    /\ \/ dbpc = "loaded" /\ db \in Snapshots
       \/ dbpc = "none" /\ db = [DefaultGoal |-> "", Targets |-> <<>>]
    /\ since = 0
    /\ deps = [normal |-> <<>>, orderOnly |-> <<>>, drained |-> <<>>]
    /\ pending = 0
    /\ hasChanged = FALSE

\* cmd.GetFiles(): getDatabase() only when mc.db is nil
CallGetFiles ==
    /\ dbpc \in {"none", "loaded"}
    /\ IF dbpc = "none" THEN db' \in Snapshots ELSE db' = db
    /\ files' = GetFiles(db', goal)
    /\ deps' = GetDeps(db', GetTarget(db', goal).Name)
    /\ dbpc' = "files"
    /\ UNCHANGED <<orchVars, cmd, latchVars, parseVars, queueVars, watchVars,
                   lookup, walk, goal, since, pending, hasChanged>>

FilesSpec == FilesInit /\ [][CallGetFiles]_vars

\* ======================= makedb: parsing the dump ========================
\* A line of the dump is the sequence of its whitespace-separated words.
doesNotExist == <<"#", "File", "does", "not", "exist.">>
lastModified == <<"#", "Last", "modified">>
needsUpdate == <<"#", "Needs", "to", "be", "updated", "(-q", "is", "set).">>
notTarget == <<"#", "Not", "a", "target:">>
phonyTarget == <<"#", "Phony", "target", "(prerequisite", "of", ".PHONY).">>

\* the timestamp the parser refuses to handle
EpochText == <<"1970-01-01", "00:59:56">>

\* Target{}: the zero value
ZeroTarget ==
    [Name |-> "", NormalPrerequisites |-> <<>>,
     OrderOnlyPrerequisites |-> <<>>,
     NotTarget |-> FALSE, Phony |-> FALSE, NeedsUpdate |-> FALSE,
     DoesNotExist |-> FALSE, LastModified |-> 0]

\* one word of PopulateNames; st = [t, orderOnlyMode]
NamesWord(st, word) ==
    IF Len(st.t.Name) = 0
    THEN [st EXCEPT !.t.Name = SubSeq(word, 1, Len(word) - 1)]
    ELSE IF SubSeq(word, 1, 1) = "|"
    THEN [st EXCEPT !.orderOnlyMode = TRUE]
    ELSE IF st.orderOnlyMode
    THEN [st EXCEPT !.t.OrderOnlyPrerequisites = Append(@, word)]
    ELSE [st EXCEPT !.t.NormalPrerequisites = Append(@, word)]

RECURSIVE NamesWords(_, _)
NamesWords(st, words) ==
    IF words = <<>> THEN st
    ELSE NamesWords(NamesWord(st, Head(words)), Tail(words))

\* Target.PopulateNames: the target after the line, and the error
PopulateNames(t, line) ==
    LET st == NamesWords([t |-> t, orderOnlyMode |-> FALSE], line)
    IN  [t |-> st.t, err |-> IF Len(st.t.Name) = 0 THEN "parse" ELSE "nil"]

HasPrefix(line, prefix) ==
    /\ Len(line) >= Len(prefix)
    /\ SubSeq(line, 1, Len(prefix)) = prefix

\* seconds of the clock texts this model reads
ClockSeconds(c) ==
    CASE c = "00:00:01" -> 1
      [] c = "00:00:02" -> 2
      [] c = "00:00:03" -> 3
      [] OTHER -> 0

\* time.ParseInLocation with the layout "2006-01-02 15:04:05"
ParseInLocation(s) ==
    IF Len(s) = 2 /\ s[1] = "2015-01-01" /\ ClockSeconds(s[2]) > 0
    THEN [time |-> ClockSeconds(s[2]), err |-> "nil"]
    ELSE [time |-> 0, err |-> "time"]

\* Target.Populate whose "does not exist" case also clears NeedsUpdate
PopulateLineClearing(t, line) ==
    IF line = notTarget
    THEN [t |-> [t EXCEPT !.NotTarget = TRUE], err |-> "nil"]
    ELSE IF Len(t.Name) = 0
    THEN PopulateNames(t, line)
    ELSE IF line = phonyTarget
    THEN [t |-> [t EXCEPT !.Phony = TRUE], err |-> "nil"]
    ELSE IF line = needsUpdate
    THEN [t |-> [t EXCEPT !.NeedsUpdate = TRUE], err |-> "nil"]
    ELSE IF line = doesNotExist
    THEN [t |-> [t EXCEPT !.DoesNotExist = TRUE, !.NeedsUpdate = FALSE],
          err |-> "nil"]
    ELSE IF HasPrefix(line, lastModified)
    THEN [t |-> [t EXCEPT !.LastModified = 2], err |-> "nil"]
    ELSE [t |-> t, err |-> "nil"]

\* one line of Target.Populate; r = [t, err]
PopulateLine(t, line) ==
    IF line = notTarget
    THEN [t |-> [t EXCEPT !.NotTarget = TRUE], err |-> "nil"]
    ELSE IF Len(t.Name) = 0
    THEN PopulateNames(t, line)
    ELSE IF line = phonyTarget
    THEN [t |-> [t EXCEPT !.Phony = TRUE], err |-> "nil"]
    ELSE IF line = needsUpdate
    THEN [t |-> [t EXCEPT !.NeedsUpdate = TRUE], err |-> "nil"]
    ELSE IF line = doesNotExist
    THEN [t |-> [t EXCEPT !.DoesNotExist = TRUE], err |-> "nil"]
    ELSE IF HasPrefix(line, lastModified)
    THEN LET s == SubSeq(line, Len(lastModified) + 1, Len(line))
         IN  IF s = EpochText THEN [t |-> t, err |-> "panic"]
             ELSE LET p == ParseInLocation(s)
                  IN  IF p.err # "nil" THEN [t |-> t, err |-> p.err]
                      ELSE [t |-> [t EXCEPT !.LastModified = p.time],
                            err |-> "nil"]
    ELSE [t |-> t, err |-> "nil"]

RECURSIVE PopulateLines(_, _)
PopulateLines(t, lines) ==
    IF lines = <<>> THEN [t |-> t, err |-> "nil"]
    ELSE LET r == PopulateLine(t, Head(lines))
         IN  IF r.err # "nil" THEN r ELSE PopulateLines(r.t, Tail(lines))

\* Target.Populate on a fresh Target: s is the block, a sequence of lines
TargetPopulate(s) == PopulateLines(ZeroTarget, s)

\* db.Targets[name] = t
Store(targets, name, t) ==
    [n \in DOMAIN targets \cup {name} |-> IF n = name THEN t ELSE targets[n]]

\* Database.Populate, case s := <-ch
PopulateBlock(s) ==
    LET r == TargetPopulate(s)
    IN  /\ block' = s
        /\ parsed' = r
        /\ IF r.err = "nil"
           THEN /\ db' = [db EXCEPT !.Targets = Store(@, r.t.Name, r.t)]
                /\ popret' = popret
           ELSE /\ db' = db
                /\ popret' = IF r.err = "panic" THEN "panic" ELSE "error"

\* ----------------------- blocks given to Target.Populate -----------------
MaxWords == 2
MaxLines == 2

SeqsUpTo(S, k) == UNION {[1..n -> S] : n \in 0..k}

Words == {"A:", "B", ":", "|"}

Lines ==
    SeqsUpTo(Words, MaxWords) \cup
    {notTarget, phonyTarget, needsUpdate, doesNotExist,
     lastModified \o <<"2015-01-01", "00:00:02">>,
     lastModified \o EpochText,
     lastModified \o <<"yesterday">>}

\* the blocks of up to k lines
Blocks(k) == SeqsUpTo(Lines, k) \ {<<>>}

ParseInit ==
    /\ Started({})
    /\ NoRest
    /\ NoDatabase
    /\ block \in Blocks(MaxLines)
    /\ parsed = [err |-> "none", t |-> <<>>]
    /\ dump = [goals |-> <<>>, header |-> TRUE, blocks |-> <<block>>]
    /\ reader = [pc |-> "ch", i |-> 1]
    /\ closed = {}
    /\ popret = "select"

\* the reader goroutine hands the block over and Populate parses it
ParseBlock ==
    /\ popret = "select"
    /\ reader.pc = "ch"
    /\ PopulateBlock(dump.blocks[reader.i])
    /\ reader' = [pc |-> "done", i |-> 0]
    /\ UNCHANGED <<orchVars, cmd, latchVars, restVars, goal, since, dbpc,
                   deps, pending, hasChanged, dump, closed>>

ParseSpec == ParseInit /\ [][ParseBlock]_vars

\* ----------------------- Populate and the reader goroutine ---------------
MaxDirectives == 1
MaxBlocks == 1

GoalNames == {"A", "B"}

\* the blocks of a whole dump are kept to one line each
DumpBlocks == Blocks(1)

Dumps ==
    [goals : SeqsUpTo(GoalNames, MaxDirectives),
     header : BOOLEAN,
     blocks : SeqsUpTo(DumpBlocks, MaxBlocks)]

\* readTargets, second loop: the next block to send, or done
ScanBlocks(d, j) ==
    IF j <= Len(d.blocks) THEN [pc |-> "ch", i |-> j]
    ELSE [pc |-> "done", i |-> 0]

\* readTargets, first loop: the next directive to send, the header, or the
\* end of the input (return, which runs the deferred closes)
ScanDirectives(d, i) ==
    IF i <= Len(d.goals) THEN [pc |-> "dch", i |-> i]
    ELSE IF d.header THEN ScanBlocks(d, 1)
    ELSE [pc |-> "close_done", i |-> 0]

\* Populate has called readTargets and enters its loop
PopulateInit ==
    /\ Started({})
    /\ NoRest
    /\ NoDatabase
    /\ dump \in Dumps
    /\ block = <<>>
    /\ parsed = [err |-> "none", t |-> <<>>]
    /\ reader = ScanDirectives(dump, 1)
    /\ closed = {}
    /\ popret = "select"

idleVars == <<orchVars, cmd, latchVars, restVars, goal, since, dbpc, deps,
              pending, hasChanged>>

\* case name := <-dch
RecvDefaultGoal ==
    /\ popret = "select"
    /\ \/ /\ reader.pc = "dch"
          /\ db' = [db EXCEPT !.DefaultGoal = dump.goals[reader.i]]
          /\ reader' = ScanDirectives(dump, reader.i + 1)
       \/ /\ "dch" \in closed
          /\ db' = [db EXCEPT !.DefaultGoal = ""]
          /\ reader' = reader
    /\ UNCHANGED <<idleVars, block, parsed, dump, closed, popret>>

\* case s := <-ch
RecvBlock ==
    /\ popret = "select"
    /\ \/ /\ reader.pc = "ch"
          /\ PopulateBlock(dump.blocks[reader.i])
          /\ reader' = ScanBlocks(dump, reader.i + 1)
       \/ /\ "ch" \in closed
          /\ PopulateBlock(<<>>)
          /\ reader' = reader
    /\ UNCHANGED <<idleVars, dump, closed>>

\* case <-done
RecvDone ==
    /\ popret = "select"
    /\ \/ /\ reader.pc = "done"
          /\ reader' = [pc |-> "close_done", i |-> 0]
       \/ /\ "done" \in closed
          /\ reader' = reader
    /\ popret' = "nil"
    /\ UNCHANGED <<idleVars, db, block, parsed, dump, closed>>

\* the deferred closes of the goroutine, last deferred first
CloseDone ==
    /\ reader.pc = "close_done"
    /\ closed' = closed \cup {"done"}
    /\ reader' = [reader EXCEPT !.pc = "close_dch"]
    /\ UNCHANGED <<idleVars, db, block, parsed, dump, popret>>

CloseDch ==
    /\ reader.pc = "close_dch"
    /\ closed' = closed \cup {"dch"}
    /\ reader' = [reader EXCEPT !.pc = "close_ch"]
    /\ UNCHANGED <<idleVars, db, block, parsed, dump, popret>>

CloseCh ==
    /\ reader.pc = "close_ch"
    /\ closed' = closed \cup {"ch"}
    /\ reader' = [reader EXCEPT !.pc = "end"]
    /\ UNCHANGED <<idleVars, db, block, parsed, dump, popret>>

PopulateNext ==
    \/ RecvDefaultGoal
    \/ RecvBlock
    \/ RecvDone
    \/ CloseDone
    \/ CloseDch
    \/ CloseCh

PopulateSpec == PopulateInit /\ [][PopulateNext]_vars

\* ----------------------- one target block in two line orders -------------
MaxMarkers == 2

\* the name lines and the recognized marker lines of a block
NameLines == {<<"A:">>, <<"A:", "B", "|", "C">>}

MarkerLines ==
    {notTarget, phonyTarget, needsUpdate, doesNotExist,
     lastModified \o <<"2015-01-01", "00:00:02">>}

\* every order of the lines in S
Orders(S) ==
    {f \in [1..Cardinality(S) -> S] : \A l \in S : \E i \in DOMAIN f : f[i] = l}

\* a dump whose two blocks hold the same name line and the same marker
\* lines, each block in an order of its own
OrderInit ==
    /\ Started({})
    /\ NoRest
    /\ NoDatabase
    /\ \E nl \in NameLines :
       \E ms \in SetsUpTo(MarkerLines, MaxMarkers) :
       \E b1 \in Orders(ms \cup {nl}) :
       \E b2 \in Orders(ms \cup {nl}) :
           dump = [goals |-> <<>>, header |-> TRUE, blocks |-> <<b1, b2>>]
    /\ block = <<>>
    /\ parsed = [err |-> "none", t |-> <<>>]
    /\ reader = ScanDirectives(dump, 1)
    /\ closed = {}
    /\ popret = "select"

\* case s := <-ch, for the next block of the dump
PopulateEach ==
    /\ popret = "select"
    /\ reader.pc = "ch"
    /\ PopulateBlock(dump.blocks[reader.i])
    /\ reader' = ScanBlocks(dump, reader.i + 1)
    /\ UNCHANGED <<idleVars, dump, closed>>

OrderSpec == OrderInit /\ [][PopulateEach]_vars

\* ---- lookups of names that may have no record ----------------------------
\* the name GetTarget looks up
Resolved(database, name) ==
    IF name = "" THEN database.DefaultGoal ELSE name

\* GetTarget panics: t is nil for a name without a record, and len(t.Name)
\* dereferences it (a runtime panic); a record with an empty Name reaches
\* the panic("Target ... not found") of the code
GetTargetPanics(database, name) ==
    \/ Resolved(database, name) \notin DOMAIN database.Targets
    \/ database.Targets[Resolved(database, name)].Name = ""

\* a GetTarget that returns an empty record for a name it does not find
LookupZeroValue(database, name) ==
    IF GetTargetPanics(database, name)
    THEN [panic |-> FALSE, t |-> ZeroTarget]
    ELSE [panic |-> FALSE, t |-> GetTarget(database, name)]

\* a call of GetTarget: it panics, or returns the record t
Lookup(database, name) ==
    IF GetTargetPanics(database, name)
    THEN [panic |-> TRUE, t |-> ZeroTarget]
    ELSE [panic |-> FALSE, t |-> GetTarget(database, name)]

\* the second loop of GetDeps panics at a name popped from oq
RECURSIVE DrainOrderOnlyPanics(_, _)
DrainOrderOnlyPanics(database, st) ==
    IF UniqueQueueLen(st.oq) = 0 THEN FALSE
    ELSE IF Lookup(database, Pop(st.oq).s).panic THEN TRUE
    ELSE DrainOrderOnlyPanics(database, OrderOnlyStep(database, st))

\* the first loop of GetDeps panics at a name popped from nq, or the second
\* loop does
RECURSIVE DrainNormalPanics(_, _)
DrainNormalPanics(database, st) ==
    IF UniqueQueueLen(st.nq) = 0 THEN DrainOrderOnlyPanics(database, st)
    ELSE IF Lookup(database, Pop(st.nq).s).panic THEN TRUE
    ELSE DrainNormalPanics(database, NormalStep(database, st))

\* GetDeps panics: targetName is not found, or a GetTarget of the walk panics
GetDepsPanics(database, targetName) ==
    IF targetName \notin DOMAIN database.Targets THEN TRUE
    ELSE LET target == database.Targets[targetName]
         IN DrainNormalPanics(database,
                [nq |-> PushEach(NewUniqueQueue, target.NormalPrerequisites),
                 oq |-> PushEach(NewUniqueQueue,
                                 target.OrderOnlyPrerequisites),
                 normal |-> <<>>,
                 orderOnly |-> <<>>])

\* databases in which some names have no record: rules for the targets of
\* `have` only, their prerequisites being any names
LookupInit ==
    /\ Started({})
    /\ NoDump
    /\ uqueue = [queue |-> <<>>, seen |-> {}]
    /\ uqlog = [pushed |-> <<>>, popped |-> <<>>, panicked |-> FALSE]
    /\ sw = [pc |-> "none", notify |-> FALSE, i |-> 0, rounds |-> 0]
    /\ clients = <<>>
    /\ files = <<>>
    /\ lookup = [call |-> "none", panic |-> FALSE, t |-> <<>>]
    /\ walk = NoWalk
    /\ \E have \in SUBSET StaleNames,
          es \in SetsUpTo(StaleEdges, MaxStaleEdges),
          dg \in {""} \cup StaleNames :
        /\ \A e \in es : e[1] \in have
        /\ db = [DefaultGoal |-> dg,
                 Targets |-> [n \in have |-> Target(n, es, FALSE)]]
    /\ goal \in {""} \cup StaleNames
    /\ since = 0
    /\ dbpc = "loaded"
    /\ deps = [normal |-> <<>>, orderOnly |-> <<>>, drained |-> <<>>]
    /\ pending = 0
    /\ hasChanged = FALSE

lookupIdle == <<orchVars, cmd, latchVars, parseVars, queueVars, watchVars,
                files, walk, db, goal, since, pending, hasChanged>>

\* t := db.GetTarget(name)
CallGetTarget ==
    /\ dbpc = "loaded"
    /\ lookup' = [call |-> "GetTarget",
                  panic |-> Lookup(db, goal).panic,
                  t |-> Lookup(db, goal).t]
    /\ dbpc' = "looked"
    /\ UNCHANGED <<lookupIdle, deps>>

\* db.GetDeps(name)
CallGetDepsWalk ==
    /\ dbpc = "loaded"
    /\ lookup' = [call |-> "GetDeps",
                  panic |-> GetDepsPanics(db, goal),
                  t |-> ZeroTarget]
    /\ deps' = IF GetDepsPanics(db, goal) THEN deps ELSE GetDeps(db, goal)
    /\ dbpc' = "walked"
    /\ UNCHANGED lookupIdle

LookupNext == CallGetTarget \/ CallGetDepsWalk

LookupSpec == LookupInit /\ [][LookupNext]_vars

\* ======================= the claims ======================================
KillPcs == {"kill", "kill_run", "kill_wait", "kill_sleep"}

\* g is between buildMutex.Lock() and buildMutex.Unlock(): spawning, in
\* GraceMode, or returned from it and about to unlock
InGraceSection(g) ==
    \/ pc[g] \in {"start", "grace", "grace_send", "unlock"}
    \/ pc[g] \in KillPcs /\ killFrom[g] = "grace"

\* g is in MonitorMode (its select, its kill or its return)
InMonitor(g) ==
    \/ pc[g] \in {"monitor", "monitor_send", "monitor_ret"}
    \/ pc[g] \in KillPcs /\ killFrom[g] = "monitor"

\* C1: for any interleaving of the goal tasks, at most one task is between
\* acquiring the build lock and leaving Grace, so no goal spawns its process
\* while another is spawning or still in Grace.
C1_OneGoalInGraceSection ==
    Cardinality({g \in GoalIds : InGraceSection(g)}) <= 1

\* one goal holds the lock in Grace with its process running while another
\* is about to call buildMutex.Lock()
C1_Witness ==
    \E g, h \in GoalIds :
        /\ g # h
        /\ pc[g] = "grace" /\ proc[g] = "alive" /\ buildMutex = g
        /\ pc[h] = "new"

\* C2: a goal task that is in Monitor, or sleeping after a spawn failure or a
\* grace-period-exceeded failure, does not hold the build lock.
C2_NoLockInMonitorOrSleep ==
    \A g \in GoalIds : (InMonitor(g) \/ pc[g] = "sleep") => buildMutex # g

\* one goal in Monitor while another sleeps after a spawn failure
C2_Witness ==
    \E g, h \in GoalIds :
        /\ pc[g] = "monitor"
        /\ pc[h] = "sleep" /\ err[h] = "spawn"

\* C3: in Monitor a processed re-check with HasChanged() true kills the
\* process if it runs and Monitor returns, after which a new cycle starts
\* with a new Build Task; with HasChanged() false Monitor does not return and
\* nothing is killed.
C3_ChangedRestartsGoal ==
    /\ [][\A g \in GoalIds :
            (MonitorCheck(g) /\ ~crashed') =>
                /\ pc'[g] \in {"monitor", "kill"}
                /\ proc'[g] = proc[g]]_vars
    /\ [][\A g \in GoalIds :
            (pc[g] = "monitor_ret" /\ pc'[g] # "monitor_ret") =>
                (pc'[g] = "new" /\ cmd'[g] = NewCmd /\ proc'[g] = "none")]_vars
    /\ \A g \in GoalIds :
            (pc[g] = "kill" /\ killFrom[g] = "monitor") ~> (pc[g] = "monitor_ret")

\* C4: in Monitor the exit of the process, with or without an error, never
\* makes Monitor return, kills nothing and restarts nothing; Monitor's select
\* is left only by a re-check that found the goal changed.
C4_ExitDoesNotEndMonitor ==
    /\ [][\A g \in GoalIds :
            (pc[g] = "monitor" /\ waiter[g] = "send" /\ waiter'[g] = "end") =>
                /\ pc'[g] = "monitor"
                /\ proc'[g] = proc[g] /\ cmd'[g] = cmd[g]
                /\ killFrom'[g] = "none"]_vars
    /\ [][\A g \in GoalIds :
            (pc[g] = "monitor" /\ pc'[g] \notin {"monitor", "monitor_send"}) =>
                (pc'[g] = "kill" /\ check[g] = 1 /\ cmd'[g].usedChanged)]_vars

\* Monitor goes on after it received (and logged) an error exit status
C4_Witness ==
    \E g \in GoalIds :
        pc[g] = "monitor" /\ waiter[g] = "end" /\ exitErr[g]

C6_StalledGraceKills ==
    [][\A g \in GoalIds :
        ( /\ GraceStalled(g)
          /\ cmd[g].remaining # 0
          /\ cmd'[g].remaining = cmd[g].remaining
          /\ proc[g] = "alive" ) => pc'[g] = "kill"]_vars

\* C7: under fair scheduling no goal task stops for ever: each is again
\* and again waiting for events in Grace or Monitor or starting a cycle.
C7_NoTaskStops ==
    \A g \in GoalIds :
        []<>(pc[g] \in {"off", "new", "start", "grace", "monitor"})

\* C8: on one Build Task, HasChanged() panics exactly when no
\* UpdateProgress() came before it, and UpdateProgress() panics exactly when
\* a HasChanged() came before it; no other call fails.
C8_Latch ==
    LET n == Len(calls)
        before(what) == \E i \in 1..(n - 1) : calls[i] = what
    IN /\ (panicked = "HasChanged") <=>
            (n > 0 /\ calls[n] = "HasChanged" /\ ~before("UpdateProgress"))
       /\ (panicked = "UpdateProgress") <=>
            (n > 0 /\ calls[n] = "UpdateProgress" /\ before("HasChanged"))

\* UpdateProgress, HasChanged, UpdateProgress: the third call panics
C8_Witness ==
    /\ calls = <<"UpdateProgress", "HasChanged", "UpdateProgress">>
    /\ panicked = "UpdateProgress"

\* C9: whenever kill() has returned the process has exited and its wait has
\* completed; a failed termination attempt does not return from kill(), it
\* sleeps and tries again.
C9_KillReturnsAfterExit ==
    /\ [](\A g \in GoalIds :
            (pc[g] = "monitor_ret" \/ (pc[g] = "unlock" /\ err[g] = "grace")) =>
                /\ proc[g] = "exited"
                /\ waiter[g] \in {"done", "send", "end"}
                /\ exitWait[g] = 0)
    /\ [][\A g \in GoalIds :
            /\ pc[g] = "kill_run" => pc'[g] \in {"kill_run", "kill_wait", "kill_sleep"}
            /\ pc[g] = "kill_sleep" => pc'[g] \in {"kill_sleep", "kill"}]_vars

\* kill() returned right after exitWait.Wait(), before the wait goroutine
\* reached its send
C9_Witness ==
    \E g \in GoalIds : pc[g] = "monitor_ret" /\ waiter[g] = "done"

\* C10: kill() returns once the process has exited, also when the process
\* exited on its own and its exit event was not yet received: kill() is never
\* waiting for runningMutex while the wait goroutine, which holds it, waits
\* for the caller of kill() to receive from Finished().
C10_KillNotBlockedByWaiter ==
    \A g \in GoalIds : ~(pc[g] = "kill" /\ waiter[g] = "send")

\* the exit status can be received from Finished() without waiting: the wait
\* goroutine is blocked in its send on the unbuffered exitChannel
FinishedReady(g) == waiter[g] = "send"

\* C11: when Kill() has returned nil after a successful Start(), an exit
\* event is available on Finished(): the non-blocking receive made right
\* after Kill() returns finds one, however the wait goroutine is scheduled.
C11_ExitEventAfterKill ==
    [][\A g \in GoalIds :
        (KillExitWait(g) /\ pc'[g] # "kill_wait") => FinishedReady(g)']_vars

\* ---- prerequisite graph of a database -----------------------------------
Range(f) == {f[i] : i \in DOMAIN f}

\* targets one normal-prerequisite edge away from a target of S
NormalSuccessors(S) ==
    UNION {Range(db.Targets[n].NormalPrerequisites) : n \in S}

\* Level(k): targets reached from the goal by a path of exactly k normal edges
RECURSIVE Level(_)
Level(k) ==
    IF k = 0 THEN {GetTarget(db, goal).Name}
    ELSE NormalSuccessors(Level(k - 1))

\* targets reachable from the goal through one or more normal edges
NormalReachable == UNION {Level(k) : k \in 1..Cardinality(Names)}

\* length of the shortest normal path from the goal to n
Distance(n) ==
    CHOOSE k \in 1..Cardinality(Names) :
        /\ n \in Level(k)
        /\ \A j \in 1..(k - 1) : n \notin Level(j)

NoDuplicates(list) ==
    \A i, j \in 1..Len(list) : list[i] = list[j] => i = j

\* C16: when every prerequisite name has a record, the names collected while
\* the normal queue is drained are exactly the targets reachable from the
\* goal through one or more normal edges, each once, nearer targets first.
C16_NormalClosure ==
    dbpc = "deps" =>
        /\ Range(deps.drained) = NormalReachable
        /\ NoDuplicates(deps.drained)
        /\ \A i, j \in 1..Len(deps.drained) :
              i < j => Distance(deps.drained[i]) <= Distance(deps.drained[j])

\* the diamond A -> {B, C}, B -> D, C -> D gives B, C, D once each
C16_Witness ==
    /\ dbpc = "deps"
    /\ db.Targets["A"].NormalPrerequisites = <<"B", "C">>
    /\ db.Targets["B"].NormalPrerequisites = <<"D">>
    /\ db.Targets["C"].NormalPrerequisites = <<"D">>
    /\ deps.drained = <<"B", "C", "D">>

\* C17: the two lists GetDeps returns are duplicate-free, also when a target
\* is reachable both through normal prerequisites and through an order-only
\* prerequisite.
C17_DuplicateFree ==
    dbpc = "deps" => NoDuplicates(deps.normal) /\ NoDuplicates(deps.orderOnly)

\* ---- staleness claims ---------------------------------------------------
\* the record of the goal
GoalTarget == GetTarget(db, goal)

\* database with the record of n replaced
WithTarget(database, n, rec) == [database EXCEPT !.Targets[n] = rec]

\* database with every file time replaced by lm[n]
Retimed(database, lm) ==
    [database EXCEPT
        !.Targets = [n \in DOMAIN @ |-> [@[n] EXCEPT !.LastModified = lm[n]]]]

\* normal prerequisites of an order-only prerequisite of the goal that the
\* goal does not reach through normal prerequisites alone
OrderOnlyReached ==
    {y \in DOMAIN db.Targets :
        /\ y # GoalTarget.Name
        /\ y \notin NormalReachable
        /\ \E x \in Range(GoalTarget.OrderOnlyPrerequisites) :
              y \in Range(db.Targets[x].NormalPrerequisites)}

\* C12: when A has an order-only prerequisite X and X a normal prerequisite Y
\* that A does not reach through normal prerequisites, HasChanged() for A is
\* what it would be if Y needed no update and was not modified after the
\* reference time: only Y's existence counts.
C12_OrderOnlyExistenceOnly ==
    dbpc = "checked" =>
        \A y \in OrderOnlyReached :
            hasChanged = HasChangedQuery(
                WithTarget(db, y, [db.Targets[y] EXCEPT !.NeedsUpdate = FALSE,
                                                        !.LastModified = 1]),
                goal, since)

\* C13: for a phony goal whose only prerequisite is one existing real file
\* that needs no update, HasChanged() is true exactly when that file's
\* lastModified is strictly after the reference time.
C13_PhonyTimestampRule ==
    dbpc = "checked" =>
        \A d \in DOMAIN db.Targets :
            ( /\ GoalTarget.Phony
              /\ GoalTarget.NormalPrerequisites = <<d>>
              /\ GoalTarget.OrderOnlyPrerequisites = <<>>
              /\ d # GoalTarget.Name
              /\ db.Targets[d].NormalPrerequisites = <<>>
              /\ db.Targets[d].OrderOnlyPrerequisites = <<>>
              /\ ~db.Targets[d].Phony
              /\ ~db.Targets[d].NeedsUpdate
              /\ ~db.Targets[d].DoesNotExist )
            => (hasChanged <=> db.Targets[d].LastModified > since)

\* a phony goal is stale because its only prerequisite was modified later
C13_Witness ==
    /\ dbpc = "checked"
    /\ GoalTarget.Phony
    /\ GoalTarget.NormalPrerequisites = <<"B">>
    /\ GoalTarget.OrderOnlyPrerequisites = <<>>
    /\ db.Targets["B"].NormalPrerequisites = <<>>
    /\ db.Targets["B"].OrderOnlyPrerequisites = <<>>
    /\ ~db.Targets["B"].NeedsUpdate /\ ~db.Targets["B"].DoesNotExist
    /\ db.Targets["B"].LastModified > since
    /\ hasChanged

\* the names GetDeps returned
Closure == Range(deps.normal) \cup Range(deps.orderOnly)

\* C14: for a phony goal (that is not a prerequisite of itself) the goal's
\* own needsUpdate and doesNotExist flags change neither the staleness answer
\* nor the pending count; with a closure that is empty or up to date and not
\* newer than the reference time the goal is not stale and nothing is pending.
C14_PhonyOwnFlagsIgnored ==
    (dbpc = "checked" /\ GoalTarget.Phony /\ GoalTarget.Name \notin Closure) =>
        /\ \A nu, dne \in BOOLEAN :
              LET alt == WithTarget(db, GoalTarget.Name,
                             [GoalTarget EXCEPT !.NeedsUpdate = nu,
                                                !.DoesNotExist = dne])
              IN /\ HasChangedQuery(alt, goal, since) = hasChanged
                 /\ getRemaining(alt, goal) = pending
        /\ (\A n \in Closure :
                /\ ~db.Targets[n].NeedsUpdate
                /\ ~db.Targets[n].DoesNotExist
                /\ db.Targets[n].LastModified <= since)
            => (~hasChanged /\ pending = 0)

\* a phony goal that make reports as needing an update, with an up-to-date
\* prerequisite, is not stale
C14_Witness ==
    /\ dbpc = "checked"
    /\ GoalTarget.Phony /\ GoalTarget.NeedsUpdate
    /\ GoalTarget.Name \notin Closure
    /\ Closure # {}
    /\ ~hasChanged /\ pending = 0

\* C15: for a real-file goal the answer does not depend on time: it is the
\* same for every reference time and every assignment of lastModified values;
\* and the goal is stale when it does not exist or needs an update itself.
C15_NonPhonyTimeIndependent ==
    (dbpc = "checked" /\ ~GoalTarget.Phony) =>
        /\ \A s2 \in Times, lm \in [DOMAIN db.Targets -> Times] :
              HasChangedQuery(Retimed(db, lm), goal, s2) = hasChanged
        /\ (GoalTarget.DoesNotExist \/ GoalTarget.NeedsUpdate) => hasChanged

\* a real-file goal with a prerequisite modified after the reference time is
\* not stale
C15_Witness ==
    /\ dbpc = "checked"
    /\ ~GoalTarget.Phony
    /\ \E n \in Range(deps.normal) : db.Targets[n].LastModified > since
    /\ ~hasChanged

\* C18: on one database, goal and reference time HasChanged() is true exactly
\* when the pending count of getRemaining is greater than zero.
C18_ChangedIffPending ==
    dbpc = "checked" => (hasChanged <=> pending > 0)

\* C20: for every block of lines, when Target.Populate returns without
\* error the name of the target is not empty, so Database.Populate never
\* stores a record under the empty name.
C20_NameNeverEmpty ==
    parsed.err = "nil" =>
        /\ parsed.t.Name # ""
        /\ "" \notin DOMAIN db.Targets

\* the default goal of the last directive line of the dump, if any
LastDirective ==
    IF dump.goals = <<>> THEN "" ELSE dump.goals[Len(dump.goals)]

\* C19: when the dump has no "# Files" header and Populate has returned
\* nil, the database has no targets and its default goal is the one of the
\* last directive line (empty when there is none), whatever the order in
\* which Populate's select and the closes of the reader goroutine ran.
C19_NoHeaderEmptyDatabase ==
    (popret = "nil" /\ ~dump.header) =>
        /\ DOMAIN db.Targets = {}
        /\ db.DefaultGoal = LastDirective

\* C21: when populating the database fails with a parse error during a
\* progress sample or a change check, the goal task of that query goes to
\* the error sleep of its loop (to retry the cycle), the program keeps
\* running and the other goal tasks stay where they are.
C21_ParseErrorRetried ==
    [][\A g \in GoalIds :
          QueryParseError(g) =>
              /\ ~crashed'
              /\ pc'[g] = "sleep"
              /\ \A h \in GoalIds \ {g} : pc'[h] = pc[h]]_vars

\* C22: a goal task whose spawn failed is on the error path only (it is in
\* neither Grace nor Monitor); its next step releases the build lock it
\* holds and goes to the error sleep, and the step after the sleep starts
\* the cycle again with a newly created Build Task that has no process.
C22_SpawnFailureRetries ==
    [][\A g \in GoalIds :
          err[g] = "spawn" =>
              /\ pc[g] \in {"unlock", "sleep"}
              /\ pc[g] = "unlock" => buildMutex = g
              /\ pc'[g] # pc[g] =>
                    \/ /\ pc[g] = "unlock"
                       /\ pc'[g] = "sleep"
                       /\ buildMutex' = NoGoal
                       /\ ~crashed'
                    \/ /\ pc[g] = "sleep"
                       /\ pc'[g] = "new"
                       /\ cmd'[g] = NewCmd
                       /\ proc'[g] = "none"
                       /\ err'[g] = "none"]_vars

\* a goal task in its error sleep after a failed spawn, the lock released
C22_Witness ==
    \E g \in goals :
        /\ err[g] = "spawn"
        /\ pc[g] = "sleep"
        /\ proc[g] = "failed"
        /\ buildMutex = NoGoal

\* what C23 excludes: the process has exited, a ready signal is waiting, a
\* sample measured pending targets, or a poll tick or filesystem
\* notification filled the check slot before the forced check (the task is
\* then blocked in its send)
NotQuiet(g) ==
    \/ proc[g] # "alive"
    \/ readyPending
    \/ cmd[g].remaining # 0
    \/ pc[g] = "grace_send"

\* C23: a goal in Grace whose pending count is zero, whose process keeps
\* running and that gets no ready signal, poll tick or filesystem
\* notification eventually reaches Monitor, even when the grace period
\* never expires: the forced check is received and its re-check ends Grace.
C23_ForcedCheckEndsGrace ==
    \A g \in GoalIds : (pc[g] = "grace") ~> (pc[g] = "monitor" \/ NotQuiet(g))

\* the forced check was received and waits in the check slot of a quiet goal
C23_Witness ==
    \E g \in goals :
        /\ pc[g] = "grace"
        /\ ~forcedCheck[g]
        /\ check[g] = 1
        /\ progress[g].stalled
        /\ ~NotQuiet(g)

RECURSIVE FirstPushes(_)
FirstPushes(seq) ==
    IF seq = <<>> THEN <<>>
    ELSE LET init == FirstPushes(SubSeq(seq, 1, Len(seq) - 1))
             last == seq[Len(seq)]
         IN  IF \E i \in DOMAIN init : init[i] = last THEN init
             ELSE Append(init, last)

\* C25: after any sequence of Push and Pop, the strings popped so far
\* followed by the strings still queued are the pushed strings in the order
\* of their first Push, each once (a string pushed again, also after it was
\* popped, is not enqueued again), and Len is the number of strings that
\* were enqueued and not yet popped.
C25_UniqueFifo ==
    /\ uqlog.popped \o uqueue.queue = FirstPushes(uqlog.pushed)
    /\ UniqueQueueLen(uqueue)
          = Len(FirstPushes(uqlog.pushed)) - Len(uqlog.popped)

\* "a" was pushed, popped and pushed again, with "b" pushed in between
C25_Witness ==
    /\ uqlog.pushed = <<"a", "b", "a">>
    /\ uqlog.popped = <<"a">>
    /\ uqueue.queue = <<"b">>

\* an event of client c is on its way: in notified, or held by its goroutine
InFlight(c) ==
    IF clients[c].notified = 1 \/ clients[c].pc \in {"clear", "send"}
    THEN 1 ELSE 0

\* rounds whose notify() call for client c has been made
RoundsNotified(c) ==
    IF sw.pc = "notify" /\ c >= sw.i THEN sw.rounds - 1 ELSE sw.rounds

\* C26: a client never receives more events than there were notification
\* rounds, and while every round began after the event of the round before
\* was received, each round gives every client exactly one event: the number
\* it received plus the one on its way equals the number of rounds.
C26_OneEventPerRound ==
    \A c \in ClientIds :
        /\ clients[c].delivered + InFlight(c) <= RoundsNotified(c)
        /\ clients[c].prompt =>
              clients[c].delivered + InFlight(c) = RoundsNotified(c)

\* two rounds, each received by both clients before the next one began
C26_Witness ==
    /\ sw.rounds = 2
    /\ sw.pc = "select"
    /\ \A c \in ClientIds :
          /\ clients[c].prompt
          /\ clients[c].delivered = 2

\* the name the goal of the task resolves to
OwnName == IF goal = "" THEN db.DefaultGoal ELSE goal

\* C27: GetFiles answers from the snapshot the task already has (a query is
\* made only when it has none), and its result is the name of the goal (of
\* the default goal when the task's target is empty), then the normal list
\* of GetDeps, then its orderOnly list, without the phony targets.
C27_GetFilesOrder ==
    [][CallGetFiles =>
          /\ dbpc = "loaded" => db' = db
          /\ files' = SelectSeq(<<OwnName'>> \o deps'.normal
                                    \o deps'.orderOnly,
                                LAMBDA n : ~db'.Targets[n].Phony)]_vars

\* the makefile of TestGetFiles, A -> B -|-> C, asked for its default goal
C27_Witness ==
    /\ dbpc = "files"
    /\ goal = ""
    /\ db.Targets["A"].NormalPrerequisites = <<"B">>
    /\ db.Targets["B"].OrderOnlyPrerequisites = <<"C">>
    /\ files = <<"A", "B", "C">>

\* C28: a re-check of Grace that does not end it reports progress exactly
\* when the count it measures differs from the count of the previous
\* re-check (0 before the first), so the re-check made when the stall timer
\* expires keeps the goal in Grace in that case only; and after a re-check
\* that reports progress the stall timer is armed again.
C28_ProgressAgainstPreviousCount ==
    [][\A g \in GoalIds :
          LET measured == cmd'[g].remaining
              previous == cmd[g].remaining
          IN  /\ (GraceStalled(g) /\ measured # 0) =>
                    ((pc'[g] = "grace") <=> (measured # previous))
              /\ ((GraceStalled(g) \/ GraceCheck(g))
                    /\ measured # 0 /\ measured # previous) =>
                    progress'[g].stalled]_vars

Listed2(S) ==
    UNION {Range(db.Targets[n].NormalPrerequisites)
             \cup Range(db.Targets[n].OrderOnlyPrerequisites) :
           n \in S \cap DOMAIN db.Targets}

\* the names a walk from S meets
RECURSIVE Met(_)
Met(S) == IF Listed2(S) \subseteq S THEN S ELSE Met(S \cup Listed2(S))

\* what the last call answered, against the records of the database
LookupAnswer ==
    /\ lookup.call = "GetTarget" =>
          LET n == IF goal = "" THEN db.DefaultGoal ELSE goal
          IN  IF n \in DOMAIN db.Targets
              THEN /\ ~lookup.panic
                   /\ lookup.t = db.Targets[n]
                   /\ lookup.t.Name = n
              ELSE lookup.panic
    /\ lookup.call = "GetDeps" =>
          (lookup.panic <=>
              \/ goal \notin DOMAIN db.Targets
              \/ \E n \in Met(Listed2({goal})) : n \notin DOMAIN db.Targets)

\* C30: GetTarget("") answers with the record of the default goal and
\* GetTarget(n) with the record named n; when the resolved name has no
\* record the call panics and returns nothing; GetDeps panics exactly when
\* its target or a name met on the walk has no record; the database is the
\* same after the call as before it.
C30_LookupOrPanic ==
    [][LookupNext => (db' = db /\ LookupAnswer')]_vars

\* GetDeps("A") panicked at C, a prerequisite of B without a record
C30_Witness ==
    /\ lookup.call = "GetDeps"
    /\ lookup.panic
    /\ goal = "A"
    /\ DOMAIN db.Targets = {"A", "B"}
    /\ db.Targets["A"].NormalPrerequisites = <<"B">>
    /\ db.Targets["B"].NormalPrerequisites = <<"C">>

\* the line is one of the recognized marker lines
IsMarker(line) ==
    \/ line \in {notTarget, phonyTarget, needsUpdate, doesNotExist}
    \/ HasPrefix(line, lastModified)

\* in block b only "not a target" lines come before the name line
NameLed(b) ==
    \A i \in DOMAIN b :
        ~IsMarker(b[i]) => \A j \in 1..(i - 1) : b[j] = notTarget

\* Populate is about to parse the second block of the dump
SecondBlock == popret = "select" /\ reader.pc = "ch" /\ reader.i = 2

\* C31 (as stated): for every order of the lines of a block (the name
\* line and a set of marker lines), Target.Populate yields the same record:
\* parsing the second block, which holds the lines of the first in another
\* order, changes neither the parsed record nor the database.
C31_AnyOrderSameRecord ==
    [][SecondBlock => (parsed' = parsed /\ db' = db)]_vars

\* C31 (amended): the same, for the orders in which only a "not a target"
\* line comes before the name line; the other marker lines, which follow
\* the name line, may come in any order (the timestamp of a "last modified"
\* line being one that parses).
C31_MarkersOrderIndependent ==
    [][(SecondBlock /\ NameLed(dump.blocks[1]) /\ NameLed(dump.blocks[2]))
         => (parsed' = parsed /\ db' = db)]_vars

\* C31 witness: both blocks parsed, in different orders of a name line with
\* prerequisites and two marker lines that follow it, into a record that
\* carries the flags.
C31_Witness ==
    /\ reader.pc = "done"
    /\ dump.blocks[1] # dump.blocks[2]
    /\ NameLed(dump.blocks[1]) /\ NameLed(dump.blocks[2])
    /\ Len(dump.blocks[1]) = 3
    /\ parsed.err = "nil"
    /\ parsed.t.Name = "A"
    /\ parsed.t.NormalPrerequisites = <<"B">>
    /\ parsed.t.NeedsUpdate /\ parsed.t.DoesNotExist
    /\ DOMAIN db.Targets = {"A"}

\* events of client c accepted by notify and not yet received from Events:
\* the item in notified, and the one its goroutine holds until its send on
\* Events is received
PendingEvents(c) ==
    clients[c].notified + (IF clients[c].pc \in {"clear", "send"} THEN 1 ELSE 0)

\* C32: a client buffers only one notification: from the acceptance of a
\* notification until its event has been received from Events every further
\* notify call is ignored, so at most one event per client is ever pending
\* delivery.
C32_OneEventPending == \A c \in ClientIds : PendingEvents(c) <= 1

\* C33: in Grace and in Monitor, forwarding a trigger (forced check, poll
\* tick, filesystem notification) to the one-slot check queue never blocks
\* the goal task: the queue is empty whenever a trigger is forwarded, so no
\* task is ever stuck in the send on its own check queue.
C33_ForwardNeverBlocks ==
    \A g \in GoalIds : pc[g] \notin {"grace_send", "monitor_send"}

\* C34: in every run of the orchestration loop the latch is never violated:
\* every HasChanged() call (the check case of Monitor) finds progressedAt
\* non-zero, every UpdateProgress() call (the ready, exit, check and stall
\* cases of Grace) is on a Build Task on which HasChanged() was not called,
\* a Build Task on which HasChanged() was called is only held in Monitor,
\* and no step panics.
C34_LatchNeverViolated ==
    [][\A g \in goals :
        /\ MonitorCheck(g) => ~HasChangedPanics(cmd[g])
        /\ (GraceReady(g) \/ GraceFinished(g) \/ GraceCheck(g) \/ GraceStalled(g))
               => ~UpdateProgressPanics(cmd[g])
        /\ InMonitor(g)' => cmd'[g].progressed # 0
        /\ cmd'[g].usedChanged => InMonitor(g)'
        /\ ~crashed']_vars

\* C34 witness: MonitorMode has returned for a Build Task that was sampled
\* in Grace and checked for changes in Monitor; the loop is about to create
\* the Build Task of the next cycle.
C34_Witness ==
    \E g \in goals :
        /\ pc[g] = "monitor_ret"
        /\ cmd[g].progressed # 0
        /\ cmd[g].usedChanged
        /\ ~crashed

\* C35: each goal has at most one live build process: whenever a goal task
\* is about to begin the iteration that spawns a new build process
\* (MonitorMode has returned, or the error sleep is running) or is spawning
\* it, the process of its previous cycle is not alive: it exited on its own,
\* was killed and waited for, or was never spawned.
C35_OneLiveProcess ==
    \A g \in goals :
        pc[g] \in {"monitor_ret", "sleep", "new", "start"} => proc[g] # "alive"

\* C35 witness: MonitorMode has returned from a kill that sent the signal
\* and waited in exitWait.Wait() for the process, which has exited; the
\* task is about to spawn the process of its next cycle.
C35_Witness ==
    \E g \in goals :
        /\ pc[g] = "monitor_ret"
        /\ proc[g] = "exited"
        /\ waiter[g] = "done"
        /\ running[g]

\* C36: with a single goal, a ready signal ends only the Grace phase of the
\* build cycle during which it was sent: a signal that was not received in
\* that cycle (it arrived in Monitor) is not kept pending, so when Monitor
\* has returned and the loop begins its next cycle no ready signal waits on
\* the ready channel to end the Grace phase of that cycle.
C36_ReadyNotKeptPending ==
    [][\A g \in goals : Loop(g) => ~readyPending']_vars

\* C37: with several goals, under fair scheduling and with timers that
\* fire, a goal task that waits for the build lock eventually acquires it:
\* no other goal stays in Grace holding the lock for ever, even when its
\* process never exits and its pending count never reaches zero.
C37_LockEventuallyAcquired ==
    \A g \in GoalIds : (pc[g] = "new") ~> (pc[g] = "start")

\* C38: each acquisition of the build lock by a goal task is followed by
\* exactly one release by the same task on every path out of the
\* spawn/Grace section: a task leaves the section only by its
\* buildMutex.Unlock(), every Unlock() is made by the task that holds the
\* lock and frees it (no second release, no release of another task's
\* lock, no fatal error), the lock changes hands only by Lock() on a free
\* lock, and it is freed by nothing but the holder's Unlock().
C38_OneReleasePerAcquisition ==
    [][\A g \in goals :
        /\ (InGraceSection(g) /\ ~InGraceSection(g)') => pc[g] = "unlock"
        /\ (pc[g] = "unlock" /\ pc'[g] # "unlock") =>
               (buildMutex = g /\ buildMutex' = NoGoal /\ ~crashed')
        /\ (buildMutex = g /\ buildMutex' # g) =>
               (pc[g] = "unlock" /\ pc'[g] \in {"monitor", "sleep"})
        /\ (buildMutex # g /\ buildMutex' = g) =>
               (buildMutex = NoGoal /\ pc[g] = "new" /\ pc'[g] = "start")
        /\ ~crashed']_vars

\* C38 witness: a task has released the lock after a failed spawn and is in
\* its error sleep, and another task has acquired the lock since and is in
\* Grace.
C38_Witness ==
    \E g, h \in goals :
        /\ g # h
        /\ pc[g] = "sleep" /\ err[g] = "spawn"
        /\ pc[h] = "grace" /\ buildMutex = h

\* the entries GetDeps has appended in its first loop, and in its second
WalkFirst == IF walk.pc = "normal" THEN walk.normal ELSE walk.drained

WalkSecond == SubSeq(walk.normal, Len(WalkFirst) + 1, Len(walk.normal))

\* no name was taken twice from either queue, none is twice in a queue, and
\* the lists hold at most twice as many entries as there are targets
WalkBounded ==
    /\ NoDuplicates(WalkFirst) /\ NoDuplicates(WalkSecond)
    /\ NoDuplicates(walk.nq.queue) /\ NoDuplicates(walk.oq.queue)
    /\ Len(walk.normal) + Len(walk.orderOnly)
           <= 2 * Cardinality(DOMAIN db.Targets)

\* C39: for every database whose prerequisite names all have records,
\* cyclic prerequisites and targets that list themselves included, GetDeps
\* terminates, each name is enqueued (and taken) at most once per queue, and
\* the returned lists have at most twice as many entries as there are
\* targets.
C39_GetDepsTerminates ==
    /\ <>(dbpc = "deps")
    /\ [][WalkBounded']_vars
    /\ [](dbpc = "deps" =>
            Len(deps.normal) + Len(deps.orderOnly)
                <= 2 * Cardinality(DOMAIN db.Targets))

\* C39 witness: GetDeps has returned for a goal that lists itself, with
\* exactly twice as many entries as there are targets.
C39_Witness ==
    /\ dbpc = "deps"
    /\ walk.pc = "return"
    /\ \E i \in DOMAIN db.Targets["A"].NormalPrerequisites :
           db.Targets["A"].NormalPrerequisites[i] = "A"
    /\ Len(deps.normal) = 2 * Cardinality(DOMAIN db.Targets)

\* C40: notifying a client never blocks the shared watcher: the one-slot
\* notified buffer of a client is full only while its changed flag is true,
\* so whenever the watcher, holding its mutex, is about to call notify on a
\* client, either the call is ignored (changed is set) or the buffer is
\* empty and the send completes, whatever the client's goroutine and the
\* reader of its events have done.
C40_NotifyNeverBlocks ==
    /\ \A c \in ClientIds : clients[c].notified = 1 => clients[c].changed
    /\ sw.pc = "notify" =>
           (clients[sw.i].changed \/ clients[sw.i].notified = 0)

\* C40 witness: the watcher is about to notify, in its third round, a
\* client whose goroutine is blocked in its send on Events, which nobody has
\* read, and whose notified buffer is full.
C40_Witness ==
    /\ sw.pc = "notify"
    /\ sw.rounds = 3
    /\ clients[sw.i].pc = "send"
    /\ clients[sw.i].delivered = 0
    /\ clients[sw.i].notified = 1
    /\ clients[sw.i].changed

====
